---- MODULE Spec2Model ----
(***************************************************************************)
(* A model of the polyphonic voice pool (PolySynth) and of the Voice life  *)
(* cycle of the ai-synth audio engine: note routing, voice allocation and  *)
(* stealing, deferred cleanup timers, panic and pool resizing.             *)
(*                                                                         *)
(* Time is in milliseconds.  The audio clock (ctx.currentTime) and the     *)
(* timer clock (setTimeout) are one clock, now, which advances in steps of *)
(* Quantum.  Velocities are in percent.                                    *)
(*                                                                         *)
(* The module also models the AudioEngine (init, setParams,               *)
(* setMasterVolume), the effect rack of createFxRack with its connections, *)
(* and the dsp helpers: AudioParam automation, smoothParam, the ADSR       *)
(* envelope and the LFO.  Gains, levels and rates are integers in units of *)
(* 0.0001.  Each part has its own specification; the variables of the      *)
(* other parts then keep their initial values.                             *)
(*                                                                         *)
(* Further parts: one Voice with its audio nodes (oscillators, noise,      *)
(* filter and envelopes), the life cycle of the AudioEngine (init with a   *)
(* suspended or failing AudioContext, dispose), the WebMIDI message        *)
(* handler with the callback of MIDIPanel, and the unison spread helpers,  *)
(* computed in IEEE 754 double arithmetic; the unison slots of a Voice     *)
(* with their oscillator gains, the peak of the filter envelope, and the   *)
(* computer-keyboard handlers of the Keyboard component.                   *)
(*                                                                         *)
(* A Voice that the pool disposed is referenced by nothing but its own     *)
(* pending timers, whose callback finds it inactive and already torn down  *)
(* and so changes nothing: the model drops a disposed Voice together with  *)
(* its timers, and a later new Voice may take its id.                      *)
(***************************************************************************)
EXTENDS Integers, Sequences, FiniteSets, TLC

\* ---------------------------------------------------------------- bounds
\* Notes are triggered and released during the first MaxTicks steps of the
\* clock; after that the clock runs on only until the pending timers fired.
MaxTicks == 2
Quantum == 100

MaxTime == MaxTicks * Quantum

Polyphonies == {0, 1, 2}
Notes == {60, 64, 67}
Velocities == {50, 100}
ReleaseTimes == {0, 200}
EnvTimes == {0, 200}
Sustains == {0, 70}
LfoRates == {20000, 50000}
LfoDepths == {5000}
Feedbacks == {4000, 10000}
EnginePolyphonies == {0, 2, 17}
Volumes == {-1000, 15000}
Unisons == {0, 8}
Glides == {0, 50}
\* init() calls waiting on ctx.resume() at one time
MaxPending == 1
\* unison voice counts run from 0 to MaxUnison
MaxUnison == 8
\* A magnitude is kept to one group of LIMB binary digits before the point
\* and FRAC_LIMBS groups behind it.
LIMB == 20
FRAC_LIMBS == 3

\* ------------------------------------------------------- program constants
\* envelope.ts: const MIN_TIME = 0.005 (seconds)
MIN_TIME == 5
\* Voice.noteOff: releaseTime = params.ampEnv.release + 0.1 (seconds)
CLEANUP_MARGIN == 100
\* DEFAULT_PARAMS.unison.voices
UNISON_VOICES == 1
\* helpers: smoothParam(..., rampTime: number = 0.02) (seconds)
SMOOTH_TIME == 20
\* envelope.ts: the floor 0.0001 of an exponential ramp, in units of 0.0001
EPSILON == 1
\* createEnvelope(ctx, gain, env, 0, 1): the values 0 and 1.0
BASE_VALUE == 0
PEAK_VALUE == 10000
\* DEFAULT_PARAMS.ampEnv.sustain, in percent
SUSTAIN == 70
\* DEFAULT_PARAMS.lfo1: rate 2 Hz, depth 0, in units of 0.0001
LFO_RATE == 20000
LFO_DEPTH == 0
\* createDelay.setFeedback: Math.min(newFeedback, 0.95)
MAX_FEEDBACK == 9500
\* ctx.createGain(): a gain of 1.0
UNITY_GAIN == 10000
\* DEFAULT_PARAMS.fx: the mix 0.5 of the distortion and the chorus, the mix
\* 0.3 of the reverb
FX_MIX == 5000
REVERB_MIX == 3000
\* DEFAULT_PARAMS: masterVolume 0.7, polyphony 8, ampEnv.release 0.3 s,
\* fx.delay.feedback 0.4
DEFAULT_VOLUME == 7000
DEFAULT_POLYPHONY == 8
DEFAULT_RELEASE == 300
DEFAULT_FEEDBACK == 4000

NoVoice == 0
\* Voice: the initial glide target, the filter range and the noise level
TARGET_FREQ == 4400000
MIN_FREQ == 200000
MAX_FREQ == 200000000
NOISE_LEVEL == 1000
\* The significant bits of a double, the number type of JavaScript
MANTISSA == 53

VARIABLES
    params,       \* PolySynth.params
    voices,       \* PolySynth.voices: the pool, a sequence of Voice ids
    activeNotes,  \* PolySynth.activeNotes: insertion-ordered Map note -> Voice
    voiceObj,     \* the live Voice objects, by id
    timers,       \* pending setTimeout callbacks of Voice.noteOff
    now,          \* the clock
    last,         \* history: the special cases the last operation ran into
    engine,       \* AudioEngine: initialized, params, the master gain
    rack,         \* the effect rack of createFxRack
    dsp,          \* an envelope's target parameter and an LFO
    solo,         \* one Voice with its nodes, parameters and envelopes
    midi,         \* WebMIDI: the callback and the last message handled
    unison,       \* the unison settings and the spread computed from them
    keyboard,     \* the Keyboard component: its state and the notes it sent
    sweep         \* a filter setting and the envelope peak computed from it

audioVars == <<engine, rack, dsp, solo, midi, unison, keyboard, sweep>>

LIMBS == 1 + FRAC_LIMBS

WIDTH == LIMBS * LIMB

vars == <<params, voices, activeNotes, voiceObj, timers, now, last,
          engine, rack, dsp, solo, midi, unison, keyboard, sweep>>

\* SynthParams, restricted to the fields the voice pool and the voice life
\* cycle read: polyphony, ampEnv.release, noise.enabled.
SynthParams ==
    [polyphony : Polyphonies, release : ReleaseTimes, noise : BOOLEAN]

Max(a, b) == IF a >= b THEN a ELSE b

\* ------------------------------------------------------------ Map<number, Voice>
MapHas(m, n) == \E i \in 1..Len(m) : m[i][1] = n

MapGet(m, n) ==
    IF MapHas(m, n)
    THEN m[CHOOSE i \in 1..Len(m) : m[i][1] = n][2]
    ELSE NoVoice

MapDelete(m, n) == SelectSeq(m, LAMBDA e : e[1] # n)

MapSet(m, n, v) ==
    IF MapHas(m, n)
    THEN [i \in 1..Len(m) |-> IF m[i][1] = n THEN <<n, v>> ELSE m[i]]
    ELSE Append(m, <<n, v>>)

MapKeys(m) == {m[i][1] : i \in 1..Len(m)}
MapValues(m) == {m[i][2] : i \in 1..Len(m)}

\* ------------------------------------------------------------------- Voice
\* new Voice(ctx, params, destination): the amp envelope captures
\* params.ampEnv of the construction.
NewVoice(p) ==
    [active |-> FALSE, noteNumber |-> 0, velocity |-> 0, startTime |-> 0,
     unisonVoices |-> 0, noiseNode |-> FALSE,
     params |-> p, envRelease |-> p.release]

\* createOscillators: cleanupOscillators, then one slot per unison voice.
createOscillators(v) == [v EXCEPT !.unisonVoices = UNISON_VOICES]

\* createNoise: stops an existing noise node and starts a new one.
createNoise(v) == [v EXCEPT !.noiseNode = TRUE]

Voice_noteOn(v, noteNumber, velocity, t) ==
    LET v1 == [v EXCEPT !.active = TRUE, !.noteNumber = noteNumber,
                        !.velocity = velocity, !.startTime = t]
        v2 == createOscillators(v1)
    IN  IF v2.params.noise THEN createNoise(v2) ELSE v2

\* The timer Voice.noteOff schedules.  releaseEnd is where triggerRelease of
\* the amp envelope ends its ramp; stale is history: a later noteOn of the
\* same voice happened while the timer was pending.
ReleaseTimer(id, v, t) ==
    [voice |-> id,
     dueAt |-> t + v.params.release + CLEANUP_MARGIN,
     releaseEnd |-> t + Max(v.envRelease, MIN_TIME),
     stale |-> FALSE]

Voice_noteOff(v) == [v EXCEPT !.active = FALSE]

cleanup(v) == [v EXCEPT !.unisonVoices = 0, !.noiseNode = FALSE]

Voice_stop(v) == cleanup([v EXCEPT !.active = FALSE])

Voice_updateParams(v, p) == [v EXCEPT !.params = p]

Voice_dispose(v) == Voice_stop(v)

\* --------------------------------------------------------------- PolySynth
PoolSet(pool) == {pool[i] : i \in 1..Len(pool)}

\* voices.find((v) => !v.state.active)
freeVoice(vo, pool) ==
    IF \E i \in 1..Len(pool) : ~vo[pool[i]].active
    THEN pool[CHOOSE i \in 1..Len(pool) :
                 /\ ~vo[pool[i]].active
                 /\ \A j \in 1..(i - 1) : vo[pool[j]].active]
    ELSE NoVoice

\* The scan for the oldest playing voice: oldestTime starts at Infinity
\* (here -1) and is replaced on a strictly smaller startTime, in the Map's
\* iteration order.
Infinity == -1

\* The scan with the comparison reversed: it finds the newest voice.
RECURSIVE oldestScan_newest(_, _, _, _, _)
oldestScan_newest(vo, m, i, oldestVoice, oldestTime) ==
    IF i > Len(m) THEN oldestVoice
    ELSE LET st == vo[m[i][2]].startTime
         IN  IF oldestTime = Infinity \/ st > oldestTime
             THEN oldestScan_newest(vo, m, i + 1, m[i][2], st)
             ELSE oldestScan_newest(vo, m, i + 1, oldestVoice, oldestTime)

RECURSIVE oldestScan(_, _, _, _, _)
oldestScan(vo, m, i, oldestVoice, oldestTime) ==
    IF i > Len(m) THEN oldestVoice
    ELSE LET st == vo[m[i][2]].startTime
         IN  IF oldestTime = Infinity \/ st < oldestTime
             THEN oldestScan(vo, m, i + 1, m[i][2], st)
             ELSE oldestScan(vo, m, i + 1, oldestVoice, oldestTime)

\* for (const [note, v] of activeNotes) if (v === oldestVoice) { delete; break }
deleteFirstOf(m, v) ==
    IF v \in MapValues(m)
    THEN LET k == CHOOSE i \in 1..Len(m) :
                     m[i][2] = v /\ \A j \in 1..(i - 1) : m[j][2] # v
         IN  [i \in 1..(Len(m) - 1) |-> IF i < k THEN m[i] ELSE m[i + 1]]
    ELSE m

\* allocateVoice that steals without detaching the stolen voice's note.
allocateVoice_keepsNote(vo, pool, m) ==
    LET free == freeVoice(vo, pool)
        oldestVoice == oldestScan(vo, m, 1, NoVoice, Infinity)
    IN  IF free # NoVoice
        THEN [voice |-> free, objs |-> vo, map |-> m, stole |-> FALSE]
        ELSE IF oldestVoice # NoVoice
        THEN [voice |-> oldestVoice,
              objs |-> [vo EXCEPT ![oldestVoice] = Voice_stop(@)],
              map |-> m,
              stole |-> TRUE]
        ELSE [voice |-> NoVoice, objs |-> vo, map |-> m, stole |-> FALSE]

\* allocateVoice that never steals: null when no voice is free.
allocateVoice_neverSteals(vo, pool, m) ==
    LET free == freeVoice(vo, pool)
    IN  IF free # NoVoice
        THEN [voice |-> free, objs |-> vo, map |-> m, stole |-> FALSE]
        ELSE [voice |-> NoVoice, objs |-> vo, map |-> m, stole |-> FALSE]

\* allocateVoice: the chosen voice (NoVoice for null), and the voice objects
\* and the map as it leaves them.
allocateVoice(vo, pool, m) ==
    LET free == freeVoice(vo, pool)
        oldestVoice == oldestScan(vo, m, 1, NoVoice, Infinity)
    IN  IF free # NoVoice
        THEN [voice |-> free, objs |-> vo, map |-> m, stole |-> FALSE]
        ELSE IF oldestVoice # NoVoice
        THEN [voice |-> oldestVoice,
              objs |-> [vo EXCEPT ![oldestVoice] = Voice_stop(@)],
              map |-> deleteFirstOf(m, oldestVoice),
              stole |-> TRUE]
        ELSE [voice |-> NoVoice, objs |-> vo, map |-> m, stole |-> FALSE]

\* History record of one operation: the special cases it ran into.
\*   retrigger  noteOn released the voice that played the note so far
\*   stole      noteOn stole a voice
\*   older      ... which had started strictly before another mapped voice
\*   dropped    noteOn found no voice
\*   panicked   the operation was panic
\*   stopped    ... and it stopped a mapped voice that was sounding
\*   forced     a shrink of the pool removed an active voice
\*   grew       updateParams appended voices to the pool
\*   tore       a timer's cleanup tore down running oscillators or noise
\*   stale      ... and the timer was a left-over of an earlier release
\*   early      ... and the release ramp of its noteOff had not yet ended
\*   spared     a timer found its voice active, with oscillators or noise
Plain ==
    [retrigger |-> FALSE, stole |-> FALSE, older |-> FALSE, dropped |-> FALSE,
     panicked |-> FALSE, stopped |-> FALSE, forced |-> FALSE, grew |-> FALSE,
     tore |-> FALSE, stale |-> FALSE, early |-> FALSE, spared |-> FALSE]

\* A noteOn of voice id makes every timer pending for it a left-over of an
\* earlier release.
markStale(tm, id) ==
    {IF t.voice = id THEN [t EXCEPT !.stale = TRUE] ELSE t : t \in tm}

\* noteOn without the retrigger block: an already mapped note is neither
\* released nor detached before the allocation.
noteOn_noRetrigger(noteNumber, velocity) ==
    /\ now <= MaxTime
    /\ LET a == allocateVoice(voiceObj, voices, activeNotes)
       IN  /\ IF a.voice = NoVoice
              THEN UNCHANGED <<voiceObj, activeNotes, timers>>
              ELSE /\ voiceObj' = [a.objs EXCEPT ![a.voice] =
                                      Voice_noteOn(@, noteNumber, velocity, now)]
                   /\ activeNotes' = MapSet(a.map, noteNumber, a.voice)
                   /\ timers' = markStale(timers, a.voice)
           /\ last' = [Plain EXCEPT           
                          !.retrigger = MapHas(activeNotes, noteNumber),
                          !.stole = a.stole,
                          !.dropped = a.voice = NoVoice]
    /\ UNCHANGED <<params, voices, now>>
    /\ UNCHANGED audioVars

noteOn(noteNumber, velocity) ==
    /\ now <= MaxTime
    /\ LET existingVoice == MapGet(activeNotes, noteNumber)
           vo1 == IF existingVoice # NoVoice
                  THEN [voiceObj EXCEPT ![existingVoice] = Voice_noteOff(@)]
                  ELSE voiceObj
           tm1 == IF existingVoice # NoVoice
                  THEN timers \cup
                       {ReleaseTimer(existingVoice, voiceObj[existingVoice], now)}
                  ELSE timers
           m1  == IF existingVoice # NoVoice
                  THEN MapDelete(activeNotes, noteNumber)
                  ELSE activeNotes
           a   == allocateVoice(vo1, voices, m1)
       IN  /\ IF a.voice = NoVoice
              THEN /\ voiceObj' = vo1
                   /\ activeNotes' = m1
                   /\ timers' = tm1
              ELSE /\ voiceObj' = [a.objs EXCEPT ![a.voice] =
                                      Voice_noteOn(@, noteNumber, velocity, now)]
                   /\ activeNotes' = MapSet(a.map, noteNumber, a.voice)
                   /\ timers' = markStale(tm1, a.voice)
           /\ last' = [Plain EXCEPT           
                          !.retrigger = existingVoice # NoVoice,
                          !.stole = a.stole,
                          !.older = /\ a.stole
                                    /\ \E u \in MapValues(m1) :
                                          voiceObj[a.voice].startTime <
                                              voiceObj[u].startTime,
                          !.dropped = a.voice = NoVoice]
    /\ UNCHANGED <<params, voices, now>>
    /\ UNCHANGED audioVars

\* noteOff that releases the voice and leaves its entry in the map.
noteOff_keepsEntry(noteNumber) ==
    /\ now <= MaxTime
    /\ LET voice == MapGet(activeNotes, noteNumber)
       IN  /\ IF voice # NoVoice
              THEN /\ voiceObj' = [voiceObj EXCEPT ![voice] = Voice_noteOff(@)]
                   /\ timers' = timers \cup
                                {ReleaseTimer(voice, voiceObj[voice], now)}
                   /\ activeNotes' = activeNotes
              ELSE UNCHANGED <<voiceObj, timers, activeNotes>>
           /\ last' = Plain
    /\ UNCHANGED <<params, voices, now>>
    /\ UNCHANGED audioVars

noteOff(noteNumber) ==
    /\ now <= MaxTime
    /\ LET voice == MapGet(activeNotes, noteNumber)
       IN  /\ IF voice # NoVoice
              THEN /\ voiceObj' = [voiceObj EXCEPT ![voice] = Voice_noteOff(@)]
                   /\ timers' = timers \cup
                                {ReleaseTimer(voice, voiceObj[voice], now)}
                   /\ activeNotes' = MapDelete(activeNotes, noteNumber)
              ELSE UNCHANGED <<voiceObj, timers, activeNotes>>
           /\ last' = Plain
    /\ UNCHANGED <<params, voices, now>>
    /\ UNCHANGED audioVars

\* panic that releases the mapped voices (noteOff) instead of stopping them.
panic_releases ==
    /\ voiceObj' = [id \in DOMAIN voiceObj |->
                       IF id \in MapValues(activeNotes)
                       THEN Voice_noteOff(voiceObj[id]) ELSE voiceObj[id]]
    /\ timers' = timers \cup
                 {ReleaseTimer(id, voiceObj[id], now) : id \in MapValues(activeNotes)}
    /\ activeNotes' = <<>>
    /\ last' = [Plain EXCEPT
                   !.panicked = TRUE,
                   !.stopped = \E id \in MapValues(activeNotes) :
                               voiceObj[id].unisonVoices > 0]
    /\ UNCHANGED <<params, voices, now>>
    /\ UNCHANGED audioVars

panic ==
    /\ voiceObj' = [id \in DOMAIN voiceObj |->
                       IF id \in MapValues(activeNotes)
                       THEN Voice_stop(voiceObj[id]) ELSE voiceObj[id]]
    /\ activeNotes' = <<>>
    /\ last' = [Plain EXCEPT
                   !.panicked = TRUE,
                   !.stopped = \E id \in MapValues(activeNotes) :
                               voiceObj[id].unisonVoices > 0]
    /\ UNCHANGED <<params, voices, timers, now>>
    /\ UNCHANGED audioVars

\* The state resizeVoicePool works on.
Pool(vo, pool, m, tm) == [objs |-> vo, pool |-> pool, map |-> m, timers |-> tm]

\* voice.dispose() of a voice the pool lets go of.  Once it is inactive and
\* torn down, the voice and its timers are dropped.
disposed(vo, tm, id) ==
    LET v == Voice_dispose(vo[id])
    IN  IF ~v.active /\ v.unisonVoices = 0 /\ ~v.noiseNode
        THEN [objs |-> [k \in DOMAIN vo \ {id} |-> vo[k]],
              timers |-> {t \in tm : t.voice # id}]
        ELSE [objs |-> [vo EXCEPT ![id] = v], timers |-> tm]

\* A first pass that does not look at the active flag.
RECURSIVE firstPass_anyVoice(_, _, _, _)
firstPass_anyVoice(s, i, removed, toRemove) ==
    IF i < 1 \/ removed >= toRemove
    THEN s
    ELSE LET d == disposed(s.objs, s.timers, s.pool[i])
         IN  firstPass_anyVoice(Pool(d.objs,
                                     [k \in 1..(Len(s.pool) - 1) |->
                                         IF k < i THEN s.pool[k] ELSE s.pool[k + 1]],
                                     s.map, d.timers),
                                i - 1, removed + 1, toRemove)

\* First pass of a shrink: from the end of the pool, dispose and splice out
\* inactive voices until toRemove were removed.
RECURSIVE firstPass(_, _, _, _)
firstPass(s, i, removed, toRemove) ==
    IF i < 1 \/ removed >= toRemove
    THEN s
    ELSE IF ~s.objs[s.pool[i]].active
    THEN LET d == disposed(s.objs, s.timers, s.pool[i])
         IN  firstPass(Pool(d.objs,
                            [k \in 1..(Len(s.pool) - 1) |->
                                IF k < i THEN s.pool[k] ELSE s.pool[k + 1]],
                            s.map, d.timers),
                       i - 1, removed + 1, toRemove)
    ELSE firstPass(s, i - 1, removed, toRemove)

\* Second pass: pop from the end while the pool is oversized; the popped
\* voice loses its notes and is disposed.
RECURSIVE secondPass(_, _)
secondPass(s, newSize) ==
    IF Len(s.pool) <= newSize
    THEN s
    ELSE LET voice == s.pool[Len(s.pool)]
             d == disposed(s.objs, s.timers, voice)
         IN  secondPass(Pool(d.objs,
                             SubSeq(s.pool, 1, Len(s.pool) - 1),
                             SelectSeq(s.map, LAMBDA e : e[2] # voice),
                             d.timers),
                        newSize)

\* A growth that stops after one voice.
addVoices_one(s, k, p) ==
    IF k = 0 THEN s
    ELSE LET id == CHOOSE i \in 1..(Cardinality(DOMAIN s.objs) + 1) :
                      i \notin DOMAIN s.objs
         IN  Pool([j \in DOMAIN s.objs \cup {id} |->
                      IF j = id THEN NewVoice(p) ELSE s.objs[j]],
                  Append(s.pool, id), s.map, s.timers)

\* Add voices: new Voice(ctx, params, output), pushed at the end.
RECURSIVE addVoices(_, _, _)
addVoices(s, k, p) ==
    IF k = 0 THEN s
    ELSE LET id == CHOOSE i \in 1..(Cardinality(DOMAIN s.objs) + 1) :
                      /\ i \notin DOMAIN s.objs
                      /\ \A j \in 1..(i - 1) : j \in DOMAIN s.objs
         IN  addVoices(Pool([j \in DOMAIN s.objs \cup {id} |->
                                IF j = id THEN NewVoice(p) ELSE s.objs[j]],
                            Append(s.pool, id), s.map, s.timers),
                       k - 1, p)

resizeVoicePool(s, p, newSize) ==
    LET currentSize == Len(s.pool)
    IN  IF newSize > currentSize
        THEN addVoices(s, newSize - currentSize, p)
        ELSE IF newSize < currentSize
        THEN secondPass(firstPass(s, Len(s.pool), 0, currentSize - newSize),
                        newSize)
        ELSE s

PolySynth_updateParams(p) ==
    /\ LET vo1 == [id \in DOMAIN voiceObj |-> Voice_updateParams(voiceObj[id], p)]
           s   == Pool(vo1, voices, activeNotes, timers)
           r   == IF Len(voices) # p.polyphony
                  THEN resizeVoicePool(s, p, p.polyphony)
                  ELSE s
       IN  /\ params' = p
           /\ voiceObj' = r.objs
           /\ voices' = r.pool
           /\ activeNotes' = r.map
           /\ timers' = r.timers
           /\ last' = [Plain EXCEPT
                          !.forced = \E id \in PoolSet(voices) \ PoolSet(r.pool) :
                                        voiceObj[id].active,
                          !.grew = Len(r.pool) > Len(voices)]
    /\ UNCHANGED now

\* PolySynth.updateParams called on its own: the engine, the effect rack and
\* the control parameters are left alone.
updateParams(p) ==
    /\ PolySynth_updateParams(p)
    /\ UNCHANGED audioVars

\* A timer callback that never runs cleanup.
timerFires_noCleanup(t) ==
    /\ t \in timers
    /\ t.dueAt <= now
    /\ \A u \in timers : t.dueAt <= u.dueAt
    /\ timers' = timers \ {t}
    /\ last' = Plain
    /\ UNCHANGED <<params, voices, activeNotes, voiceObj, now>>
    /\ UNCHANGED audioVars

\* A timer callback that runs cleanup whatever the active flag says.
timerFires_unguarded(t) ==
    /\ t \in timers
    /\ t.dueAt <= now
    /\ \A u \in timers : t.dueAt <= u.dueAt
    /\ timers' = timers \ {t}
    /\ voiceObj' = [voiceObj EXCEPT ![t.voice] = cleanup(@)]
    /\ last' = [Plain EXCEPT
                   !.spared = /\ voiceObj[t.voice].active
                              /\ \/ voiceObj[t.voice].unisonVoices > 0
                                 \/ voiceObj[t.voice].noiseNode]
    /\ UNCHANGED <<params, voices, activeNotes, now>>
    /\ UNCHANGED audioVars

\* The setTimeout callback of Voice.noteOff: if (!state.active) cleanup().
\* Timers fire in the order of their due times.
timerFires(t) ==
    /\ t \in timers
    /\ t.dueAt <= now
    /\ \A u \in timers : t.dueAt <= u.dueAt
    /\ timers' = timers \ {t}
    /\ voiceObj' = [voiceObj EXCEPT ![t.voice] =
                       IF ~@.active THEN cleanup(@) ELSE @]
    /\ LET sounds == \/ voiceObj[t.voice].unisonVoices > 0
                      \/ voiceObj[t.voice].noiseNode
           tore == ~voiceObj[t.voice].active /\ sounds
       IN  last' = [Plain EXCEPT
                       !.tore = tore,
                       !.stale = tore /\ t.stale,
                       !.early = tore /\ now < t.releaseEnd,
                       !.spared = voiceObj[t.voice].active /\ sounds]
    /\ UNCHANGED <<params, voices, activeNotes, now>>
    /\ UNCHANGED audioVars

\* The clock advances; a timer that is due fires within its quantum.
Tick ==
    /\ now < MaxTime \/ timers # {}
    /\ \A t \in timers : t.dueAt > now
    /\ now' = now + Quantum
    /\ last' = Plain
    /\ UNCHANGED <<params, voices, activeNotes, voiceObj, timers>>
    /\ UNCHANGED audioVars

\* new PolySynth(ctx, params, destination): initVoices fills the pool.
InitWith(p) ==
    /\ params = p
    /\ voiceObj = [k \in 1..p.polyphony |-> NewVoice(p)]
    /\ voices = [k \in 1..p.polyphony |-> k]
    /\ activeNotes = <<>>
    /\ timers = {}
    /\ now = 0
    /\ last = Plain

\* ------------------------------------------------------------- AudioParam
\* An AudioParam: the value it currently reads (the slot that param.value
\* returns, refreshed when the clock advances) and its automation events,
\* ordered by time.
\*
\* A value is a tuple of integers in units of 0.0001.  <<v>> is the number
\* v.  A value read in the middle of an exponential ramp is kept exact
\* instead of rounded: w \o <<target, elapsed, span>> is the point reached
\* after elapsed of span milliseconds on the exponential ramp from the value
\* w to target.
Num(n) == <<n>>

NewParam(n) == [value |-> Num(n), events |-> <<>>]

Event(type, value, time) == [type |-> type, value |-> value, time |-> time]

\* param.cancelScheduledValues(t): the events at or after t are removed.
cancelScheduledValues(param, t) ==
    [param EXCEPT !.events = SelectSeq(@, LAMBDA e : e.time < t)]

\* A new event replaces an event of its type at its time; otherwise it goes
\* behind the events that are not later than it.
insertEvent(param, e) ==
    LET others == SelectSeq(param.events,
                            LAMBDA x : ~(x.time = e.time /\ x.type = e.type))
    IN  [param EXCEPT !.events =
            SelectSeq(others, LAMBDA x : x.time <= e.time) \o <<e>>
                \o SelectSeq(others, LAMBDA x : x.time > e.time)]

setValueAtTime(param, value, t) == insertEvent(param, Event("set", value, t))

linearRampToValueAtTime(param, value, t) ==
    insertEvent(param, Event("lin", value, t))

exponentialRampToValueAtTime(param, value, t) ==
    insertEvent(param, Event("exp", value, t))

\* The value the automation timeline gives the parameter at time t.
ValueAt(param, t) ==
    LET before == SelectSeq(param.events, LAMBDA e : e.time <= t)
        after  == SelectSeq(param.events, LAMBDA e : e.time > t)
        held   == IF before = <<>> THEN param.value
                  ELSE before[Len(before)].value
    IN  IF after = <<>> \/ before = <<>> \/ after[1].type = "set"
        THEN held
        ELSE LET t0 == before[Len(before)].time
                 t1 == after[1].time
             IN  IF t = t0 THEN held
                 ELSE IF after[1].type = "lin"
                 THEN Num(held[1] + ((after[1].value[1] - held[1]) * (t - t0))
                                        \div (t1 - t0))
                 ELSE held \o <<after[1].value[1], t - t0, t1 - t0>>

\* The clock reached t: the slot is refreshed.  Of the events that lie in the
\* past only the latest still matters, as the start of a ramp that follows.
renderParam(param, t) ==
    LET before == SelectSeq(param.events, LAMBDA e : e.time <= t)
        after  == SelectSeq(param.events, LAMBDA e : e.time > t)
    IN  [value  |-> ValueAt(param, t),
         events |-> IF before = <<>> \/ after = <<>> THEN after
                    ELSE <<before[Len(before)]>> \o after]

\* helpers: smoothParam(param, value, ctx, rampTime = 0.02)
smoothParam(param, value, t) ==
    LET p1 == cancelScheduledValues(param, t)
        p2 == setValueAtTime(p1, p1.value, t)
    IN  linearRampToValueAtTime(p2, Num(value), t + SMOOTH_TIME)

\* --------------------------------------------------------------- envelope
\* ADSRParams: times in milliseconds, the sustain level in percent.
ADSRParams ==
    [attack : EnvTimes, decay : EnvTimes, sustain : Sustains,
     release : ReleaseTimes]

\* An attack without the 5 ms and 0.0001 floors.
triggerAttack_noFloor(param, env, baseValue, peakValue, time, velocity) ==
    LET peak         == baseValue + ((peakValue - baseValue) * velocity) \div 100
        sustainLevel == baseValue + ((peak - baseValue) * env.sustain) \div 100
        p1           == cancelScheduledValues(param, time)
        p2           == setValueAtTime(p1, Num(baseValue), time)
        p3           == linearRampToValueAtTime(p2, Num(peak), time + env.attack)
    IN  exponentialRampToValueAtTime(p3, Num(sustainLevel),
                                     time + env.attack + env.decay)

\* createEnvelope(ctx, param, env, baseValue, peakValue).triggerAttack
triggerAttack(param, env, baseValue, peakValue, time, velocity) ==
    LET peak         == baseValue + ((peakValue - baseValue) * velocity) \div 100
        sustainLevel == baseValue + ((peak - baseValue) * env.sustain) \div 100
        p1           == cancelScheduledValues(param, time)
        p2           == setValueAtTime(p1, Num(baseValue), time)
        attackEnd    == time + Max(env.attack, MIN_TIME)
        p3           == linearRampToValueAtTime(p2, Num(peak), attackEnd)
        decayEnd     == attackEnd + Max(env.decay, MIN_TIME)
    IN  exponentialRampToValueAtTime(p3, Num(Max(sustainLevel, EPSILON)),
                                     decayEnd)

\* A release that cancels nothing.
triggerRelease_noCancel(param, env, time) ==
    LET p2 == setValueAtTime(param, param.value, time)
    IN  exponentialRampToValueAtTime(p2, Num(EPSILON),
                                     time + Max(env.release, MIN_TIME))

\* createEnvelope(...).triggerRelease
triggerRelease(param, env, time) ==
    LET p1           == cancelScheduledValues(param, time)
        currentValue == p1.value
        p2           == setValueAtTime(p1, currentValue, time)
        releaseEnd   == time + Max(env.release, MIN_TIME)
    IN  exponentialRampToValueAtTime(p2, Num(EPSILON), releaseEnd)

\* -------------------------------------------------------------------- LFO
\* createLFO(ctx, rate, depth, waveform): oscillator.frequency and gain.gain
createLFO(rate, depth) ==
    [frequency |-> NewParam(rate), gain |-> NewParam(depth)]

\* LFONode.setRate: oscillator.frequency.setValueAtTime(rate, ctx.currentTime)
LFO_setRate(lfo, rate, t) ==
    [lfo EXCEPT !.frequency = setValueAtTime(@, Num(rate), t)]

\* LFONode.setDepth: gain.gain.setValueAtTime(depth, ctx.currentTime)
LFO_setDepth(lfo, depth, t) ==
    [lfo EXCEPT !.gain = setValueAtTime(@, Num(depth), t)]

\* An envelope on a gain that starts at 0, as Voice and createEnvelopeGain
\* build it, and an LFO.
NewDsp(env) ==
    [env  |-> env,
     gain |-> NewParam(BASE_VALUE),
     lfo  |-> createLFO(LFO_RATE, LFO_DEPTH)]

renderDsp(d, t) ==
    [d EXCEPT !.gain = renderParam(@, t),
              !.lfo = [frequency |-> renderParam(@.frequency, t),
                       gain      |-> renderParam(@.gain, t)]]

synthVars == <<params, voices, activeNotes, voiceObj, timers, last>>

\* ampEnvelope.triggerAttack(now, velocity)
attack(velocity) ==
    /\ now <= MaxTime
    /\ dsp' = [dsp EXCEPT !.gain = triggerAttack(@, dsp.env, BASE_VALUE,
                                                 PEAK_VALUE, now, velocity)]
    /\ UNCHANGED <<synthVars, now, engine, rack, solo, midi, unison, keyboard, sweep>>

\* ampEnvelope.triggerRelease(now)
release ==
    /\ now <= MaxTime
    /\ dsp' = [dsp EXCEPT !.gain = triggerRelease(@, dsp.env, now)]
    /\ UNCHANGED <<synthVars, now, engine, rack, solo, midi, unison, keyboard, sweep>>

setRate(rate) ==
    /\ now <= MaxTime
    /\ dsp' = [dsp EXCEPT !.lfo = LFO_setRate(@, rate, now)]
    /\ UNCHANGED <<synthVars, now, engine, rack, solo, midi, unison, keyboard, sweep>>

setDepth(depth) ==
    /\ now <= MaxTime
    /\ dsp' = [dsp EXCEPT !.lfo = LFO_setDepth(@, depth, now)]
    /\ UNCHANGED <<synthVars, now, engine, rack, solo, midi, unison, keyboard, sweep>>

\* ---------------------------------------------------------------- effects
\* FXParams, restricted to the enabled flags, the mix of Distortion, Chorus
\* and Reverb and the feedback of Delay (in units of 0.0001).
FXParams ==
    [distortion : [enabled : BOOLEAN, mix : {FX_MIX}],
     chorus     : [enabled : BOOLEAN, mix : {FX_MIX}],
     delay      : [enabled : BOOLEAN, feedback : Feedbacks],
     reverb     : [enabled : BOOLEAN, mix : {REVERB_MIX}]]

\* DEFAULT_PARAMS.fx
DEFAULT_FX ==
    [distortion |-> [enabled |-> FALSE, mix |-> FX_MIX],
     chorus     |-> [enabled |-> FALSE, mix |-> FX_MIX],
     delay      |-> [enabled |-> FALSE, feedback |-> DEFAULT_FEEDBACK],
     reverb     |-> [enabled |-> FALSE, mix |-> REVERB_MIX]]

\* The stages before the limiter, in the order of rebuildChain.
Stages == <<"distortion", "chorus", "delay", "reverb">>

StageSet == {Stages[i] : i \in 1..Len(Stages)}

\* Audio nodes of the rack.  The instance g of an effect has an input and an
\* output node; its inner graph is one edge from the one to the other.
RackInput == <<"rack", 0, "input">>
RackOutput == <<"rack", 0, "output">>
Bypass(st) == <<st, 0, "bypass">>
NodeIn(st, g) == <<st, g, "input">>
NodeOut(st, g) == <<st, g, "output">>
LimiterIn == <<"limiter", 1, "input">>
LimiterOut == <<"limiter", 1, "output">>

\* node.connect(to) and node.disconnect() on the set of connections.
connect(edges, from, to) == edges \cup {<<from, to>>}
disconnect(edges, node) == {e \in edges : e[1] # node}

\* createDistortion / createChorus / createReverb(ctx, ..., mix):
\* wetGain.gain.value = mix
createMixed(g, mix) == [gen |-> g, wetGain |-> NewParam(mix)]

\* createDelay(ctx, time, feedback, mix): feedbackL/R.gain.value = feedback
createDelay(g, feedback) ==
    [gen |-> g, feedbackL |-> NewParam(feedback),
     feedbackR |-> NewParam(feedback)]

createEffect(st, g, fp) ==
    IF st = "delay" THEN createDelay(g, fp.feedback) ELSE createMixed(g, fp.mix)

\* setMix of Distortion, Chorus and Reverb
setMix(fx, newMix, t) == [fx EXCEPT !.wetGain = smoothParam(@, newMix, t)]

\* DelayNode.setFeedback
setFeedback(fx, newFeedback, t) ==
    LET clampedFeedback == IF newFeedback <= MAX_FEEDBACK THEN newFeedback
                           ELSE MAX_FEEDBACK
    IN  [fx EXCEPT !.feedbackL = smoothParam(@, clampedFeedback, t),
                   !.feedbackR = smoothParam(@, clampedFeedback, t)]

setEffect(st, fx, fp, t) ==
    IF st = "delay" THEN setFeedback(fx, fp.feedback, t)
    ELSE setMix(fx, fp.mix, t)

\* A rack without effects and without connections: fxRack is null.  The
\* field asked is history: the FXParams the rack was last given.
NoRack ==
    [asked  |-> DEFAULT_FX,
     slot   |-> [st \in StageSet |-> <<>>],
     made   |-> [st \in StageSet |-> 0],
     bypass |-> [st \in StageSet |-> Num(0)],
     edges  |-> {}]

\* The output node of the stage st: the effect's, or the bypass node.
StageOut(r, st) ==
    IF r.slot[st] # <<>> THEN NodeOut(st, r.slot[st][1].gen) ELSE Bypass(st)

StageIn(r, st) ==
    IF r.slot[st] # <<>> THEN NodeIn(st, r.slot[st][1].gen) ELSE Bypass(st)

\* rebuildChain, from the stage i on: currentNode.connect(...) per stage,
\* then the limiter.
RECURSIVE rebuildFrom(_, _, _, _)
rebuildFrom(r, edges, i, currentNode) ==
    IF i > Len(Stages)
    THEN connect(connect(edges, currentNode, LimiterIn), LimiterOut, RackOutput)
    ELSE rebuildFrom(r, connect(edges, currentNode, StageIn(r, Stages[i])),
                     i + 1, StageOut(r, Stages[i]))

\* A rebuild that does not disconnect first.
rebuildChain_keepsWiring(r) ==
    [r EXCEPT !.edges = rebuildFrom(r, r.edges, 1, RackInput)]

\* rebuildChain: disconnect the rack input, the bypass nodes and the outputs
\* of the effects that exist, then wire the chain anew.
rebuildChain(r) ==
    LET sources == {RackInput} \cup {Bypass(st) : st \in StageSet}
                       \cup {StageOut(r, st) : st \in StageSet}
        cleared == {e \in r.edges : e[1] \notin sources}
    IN  [r EXCEPT !.edges = rebuildFrom(r, cleared, 1, RackInput)]

\* A new effect instance: its nodes and its inner path.
enableStage(r, st, fp) ==
    LET g == IF r.made[st] = 1 THEN 2 ELSE 1
    IN  [r EXCEPT !.slot[st] = <<createEffect(st, g, fp)>>,
                  !.made[st] = g,
                  !.edges = connect(@, NodeIn(st, g), NodeOut(st, g))]

\* A disable that leaves the instance in place.
disableStage_keepsInstance(r, st) == r

\* effect.dispose(), effect = null
disableStage(r, st) ==
    LET g == r.slot[st][1].gen
    IN  [r EXCEPT !.slot[st] = <<>>,
                  !.edges = disconnect(disconnect(@, NodeIn(st, g)),
                                       NodeOut(st, g))]

\* An update that never creates or disposes an effect.
updateStage_noToggle(r, st, fp, t) ==
    IF r.slot[st] # <<>>
    THEN [r EXCEPT !.slot[st] = <<setEffect(st, @[1], fp, t)>>]
    ELSE r

\* One stage of FxRack.updateParams.
updateStage(r, st, fp, t) ==
    IF fp.enabled # (r.slot[st] # <<>>)
    THEN rebuildChain(IF fp.enabled THEN enableStage(r, st, fp)
                      ELSE disableStage(r, st))
    ELSE IF r.slot[st] # <<>>
    THEN [r EXCEPT !.slot[st] = <<setEffect(st, @[1], fp, t)>>]
    ELSE r

RECURSIVE updateStages(_, _, _, _)
updateStages(r, i, newParams, t) ==
    IF i > Len(Stages) THEN r
    ELSE updateStages(updateStage(r, Stages[i], newParams[Stages[i]], t),
                      i + 1, newParams, t)

\* FxRack.updateParams(newParams)
FxRack_updateParams(r, newParams, t) ==
    [updateStages(r, 1, newParams, t) EXCEPT !.asked = newParams]

RECURSIVE initStages(_, _, _)
initStages(r, i, fxp) ==
    IF i > Len(Stages) THEN r
    ELSE initStages(IF fxp[Stages[i]].enabled
                    THEN enableStage(r, Stages[i], fxp[Stages[i]])
                    ELSE r,
                    i + 1, fxp)

\* createFxRack(ctx, params): the bypass gains, the enabled effects, the
\* limiter, then rebuildChain().
createFxRack(fxp) ==
    LET r0 == [NoRack EXCEPT
                  !.asked = fxp,
                  !.bypass = [st \in StageSet |-> Num(UNITY_GAIN)],
                  !.edges = {<<LimiterIn, LimiterOut>>}]
    IN  rebuildChain(initStages(r0, 1, fxp))

renderEffect(fx, t) ==
    [f \in DOMAIN fx |-> IF f = "gen" THEN fx[f] ELSE renderParam(fx[f], t)]

renderRack(r, t) ==
    [r EXCEPT !.slot = [st \in StageSet |->
                           IF r.slot[st] = <<>> THEN <<>>
                           ELSE <<renderEffect(r.slot[st][1], t)>>]]

\* fxRack.updateParams(p) at the current time.
fxUpdate(p) ==
    /\ now <= MaxTime
    /\ rack' = FxRack_updateParams(rack, p, now)
    /\ UNCHANGED <<synthVars, now, engine, dsp, solo, midi, unison, keyboard, sweep>>

\* ------------------------------------------------------------ AudioEngine
\* DEFAULT_PARAMS, restricted to masterVolume, polyphony, ampEnv.release,
\* noise.enabled, unison.voices and fx.
DEFAULT_PARAMS ==
    [masterVolume |-> DEFAULT_VOLUME, polyphony |-> DEFAULT_POLYPHONY,
     release |-> DEFAULT_RELEASE, noise |-> FALSE, unison |-> UNISON_VOICES,
     fx |-> DEFAULT_FX]

\* The part of the engine's params that the voice pool reads.
synthParams(ep) ==
    [polyphony |-> ep.polyphony, release |-> ep.release, noise |-> ep.noise]

\* class AudioEngineClass: params = { ...DEFAULT_PARAMS }, initialized = false,
\* ctx = null (ctx is TRUE while this.ctx holds a context), no master gain.
\* pending counts the init() calls suspended at "await this.ctx.resume()".
\* History: failed, an init() call failed since the last one that completed;
\* recovered, the last init() that completed followed a failed one; life,
\* which of init() and dispose() completed last ("disposed" when dispose()
\* found the engine initialised); asked, per field of the parameters the
\* value last passed in, with the name of the call that passed it.
NewEngine ==
    [initialized |-> FALSE, params |-> DEFAULT_PARAMS,
     masterGain |-> NewParam(0), ctx |-> FALSE, pending |-> 0,
     failed |-> FALSE, recovered |-> FALSE, life |-> "new",
     asked |-> [f \in DOMAIN DEFAULT_PARAMS |-> <<>>]]

\* The engine without a synth: what the constructor leaves and what
\* dispose() leaves behind (synth = null).
NoSynthParams ==
    [polyphony |-> 0, release |-> DEFAULT_RELEASE, noise |-> FALSE]

\* An init() that builds the synth, the rack and the master gain from the
\* defaults.
build_defaults(e) ==
    /\ engine' = [e EXCEPT
                     !.initialized = TRUE,
                     !.masterGain = NewParam(DEFAULT_PARAMS.masterVolume),
                     !.recovered = e.failed /\ ~e.initialized,
                     !.failed = FALSE,
                     !.life = "init"]
    /\ rack' = createFxRack(DEFAULT_PARAMS.fx)
    /\ LET p == synthParams(DEFAULT_PARAMS)
       IN  /\ params' = p
           /\ voiceObj' = [k \in 1..p.polyphony |-> NewVoice(p)]
           /\ voices' = [k \in 1..p.polyphony |-> k]
    /\ activeNotes' = <<>>
    /\ timers' = {}
    /\ last' = Plain
    /\ UNCHANGED <<now, dsp, solo, midi, unison, keyboard, sweep>>

\* AudioEngine.init() behind the await: the master gain, the effect rack and
\* the synth, then initialized = true.
build(e) ==
    /\ engine' = [e EXCEPT
                     !.initialized = TRUE,
                     !.masterGain = NewParam(e.params.masterVolume),
                     !.recovered = e.failed /\ ~e.initialized,
                     !.failed = FALSE,
                     !.life = "init"]
    /\ rack' = createFxRack(e.params.fx)
    /\ LET p == synthParams(e.params)
       IN  /\ params' = p
           /\ voiceObj' = [k \in 1..p.polyphony |-> NewVoice(p)]
           /\ voices' = [k \in 1..p.polyphony |-> k]
    /\ activeNotes' = <<>>
    /\ timers' = {}
    /\ last' = Plain
    /\ UNCHANGED <<now, dsp, solo, midi, unison, keyboard, sweep>>

\* AudioEngine.init() with a context that starts running: no await.
init ==
    /\ ~engine.initialized
    /\ build([engine EXCEPT !.ctx = TRUE])

\* AudioEngine.init() with a context that starts suspended: the call stops
\* at the await.
initSuspended ==
    /\ ~engine.initialized
    /\ engine.pending < MaxPending
    /\ engine' = [engine EXCEPT !.ctx = TRUE, !.pending = @ + 1]
    /\ UNCHANGED <<synthVars, now, rack, dsp, solo, midi, unison, keyboard, sweep>>

\* resume() resolved: the call goes on with this.ctx as it is by now; with
\* this.ctx = null (a dispose() in between) createGain raises.
initResumed ==
    /\ engine.pending > 0
    /\ IF engine.ctx
       THEN build([engine EXCEPT !.pending = @ - 1])
       ELSE /\ engine' = [engine EXCEPT !.pending = @ - 1, !.failed = TRUE]
            /\ UNCHANGED <<synthVars, now, rack, dsp, solo, midi, unison, keyboard, sweep>>

\* An init() that has set initialized before the await.
initRejected_flagged ==
    /\ engine.pending > 0
    /\ engine' = [engine EXCEPT !.pending = @ - 1, !.failed = TRUE,
                                !.initialized = TRUE]
    /\ UNCHANGED <<synthVars, now, rack, dsp, solo, midi, unison, keyboard, sweep>>

\* resume() rejected: init() rejects at the await.
initRejected ==
    /\ engine.pending > 0
    /\ engine' = [engine EXCEPT !.pending = @ - 1, !.failed = TRUE]
    /\ UNCHANGED <<synthVars, now, rack, dsp, solo, midi, unison, keyboard, sweep>>

\* new AudioContext() raised: init() rejects before this.ctx is assigned.
initThrows ==
    /\ ~engine.initialized
    /\ engine' = [engine EXCEPT !.failed = TRUE]
    /\ UNCHANGED <<synthVars, now, rack, dsp, solo, midi, unison, keyboard, sweep>>

\* A dispose() that leaves initialized as it is.
dispose_keepsFlag ==
    /\ engine' = [engine EXCEPT
                     !.masterGain = NewParam(0), !.ctx = FALSE,
                     !.life = IF engine.initialized THEN "disposed"
                              ELSE "dispose"]
    /\ rack' = NoRack
    /\ params' = NoSynthParams
    /\ voiceObj' = <<>>
    /\ voices' = <<>>
    /\ activeNotes' = <<>>
    /\ timers' = {}
    /\ last' = Plain
    /\ UNCHANGED <<now, dsp, solo, midi, unison, keyboard, sweep>>

\* AudioEngine.dispose(): synth.dispose() stops and disposes every voice,
\* then synth, fxRack, masterGain and ctx are null.
dispose ==
    /\ engine' = [engine EXCEPT
                     !.initialized = FALSE,
                     !.masterGain = NewParam(0), !.ctx = FALSE,
                     !.life = IF engine.initialized THEN "disposed"
                              ELSE "dispose"]
    /\ rack' = NoRack
    /\ params' = NoSynthParams
    /\ voiceObj' = <<>>
    /\ voices' = <<>>
    /\ activeNotes' = <<>>
    /\ timers' = {}
    /\ last' = Plain
    /\ UNCHANGED <<now, dsp, solo, midi, unison, keyboard, sweep>>

\* AudioEngine.noteOn: if (!this.synth) return
engineNoteOn(noteNumber, velocity) ==
    \/ engine.initialized /\ noteOn(noteNumber, velocity)
    \/ ~engine.initialized /\ UNCHANGED vars

\* AudioEngine.noteOff: if (!this.synth) return
engineNoteOff(noteNumber) ==
    \/ engine.initialized /\ noteOff(noteNumber)
    \/ ~engine.initialized /\ UNCHANGED vars

\* AudioEngine.panic: this.synth?.panic()
enginePanic ==
    \/ engine.initialized /\ panic
    \/ ~engine.initialized /\ UNCHANGED vars

\* AudioEngine.getParams(): { ...this.params }
getParams == engine.params

\* { ...this.params, ...params }
merge(ep, partial) ==
    [f \in DOMAIN ep |-> IF f \in DOMAIN partial THEN partial[f] ELSE ep[f]]

\* AudioEngine.setParams(params: Partial<SynthParams>)
setParams(partial) ==
    /\ now <= MaxTime
    /\ LET ep == merge(engine.params, partial)
           given == [f \in DOMAIN ep |->
                       IF f \in DOMAIN partial
                       THEN <<partial[f], "setParams">> ELSE engine.asked[f]]
       IN  IF engine.initialized
           THEN /\ PolySynth_updateParams(synthParams(ep))
                /\ rack' = FxRack_updateParams(rack, ep.fx, now)
                /\ engine' = [engine EXCEPT
                                 !.params = ep,
                                 !.asked = given,
                                 !.masterGain =
                                     smoothParam(@, ep.masterVolume, now)]
           ELSE /\ engine' = [engine EXCEPT !.params = ep, !.asked = given]
                /\ UNCHANGED <<synthVars, now, rack>>
    /\ UNCHANGED <<dsp, solo, midi, unison, keyboard, sweep>>

\* AudioEngine.setMasterVolume(volume)
setMasterVolume(volume) ==
    /\ now <= MaxTime
    /\ LET clamped == Max(0, IF volume <= UNITY_GAIN THEN volume ELSE UNITY_GAIN)
       IN  engine' = [engine EXCEPT
                         !.params.masterVolume = clamped,
                         !.asked.masterVolume = <<volume, "setMasterVolume">>,
                         !.masterGain = IF engine.initialized
                                        THEN smoothParam(@, clamped, now)
                                        ELSE @]
    /\ UNCHANGED <<synthVars, now, rack, dsp, solo, midi, unison, keyboard, sweep>>

\* ---------------------------------------------------------------------
\* The numbers of JavaScript: IEEE 754 doubles, every division, subtraction
\* and multiplication rounded to 53 significant bits, to nearest, ties to
\* even.  A double is [neg, mag]: its sign and its magnitude in LIMBS
\* groups of LIMB binary digits, the first group before the point and
\* FRAC_LIMBS groups behind it, most significant first; -0 and 0 are one
\* value, as for ===.  An extent is [m, s]: the double m / 2^s.

Bit(n, w) == (n \div 2^w) % 2

\* The binary digit at position k of WIDTH, from the most significant.
BitAt(l, k) == Bit(l[((k - 1) \div LIMB) + 1], LIMB - 1 - ((k - 1) % LIMB))

\* The digits of r / d behind the point, for r < d, in n groups, and what
\* is left over.
RECURSIVE FracLimbs(_, _, _)
FracLimbs(r, d, n) ==
    IF n = 0 THEN <<>>
    ELSE <<(r * 2^LIMB) \div d>> \o FracLimbs((r * 2^LIMB) % d, d, n - 1)

RECURSIVE Remainder(_, _, _)
Remainder(r, d, n) ==
    IF n = 0 THEN r ELSE Remainder((r * 2^LIMB) % d, d, n - 1)

Leading(l) ==
    IF \A i \in 1..LIMBS : l[i] = 0 THEN 0
    ELSE CHOOSE k \in 1..WIDTH :
             BitAt(l, k) = 1 /\ \A j \in 1..(k - 1) : BitAt(l, j) = 0

\* Rounding to MANTISSA significant bits; sticky: digits beyond WIDTH are
\* not all 0.
Round(l, sticky) ==
    LET p     == Leading(l)
        final == p + MANTISSA - 1
    IN  IF p = 0 \/ final >= WIDTH THEN l
        ELSE LET rest == sticky \/ \E k \in (final + 2)..WIDTH : BitAt(l, k) = 1
                 up   == BitAt(l, final + 1) = 1 /\ (rest \/ BitAt(l, final) = 1)
                 f    == ((final - 1) \div LIMB) + 1
                 drop == LIMB - 1 - ((final - 1) % LIMB)
                 cut  == [i \in 1..LIMBS |->
                             IF i < f THEN l[i]
                             ELSE IF i = f THEN (l[i] \div 2^drop) * 2^drop
                             ELSE 0]
                 over == cut[f] + 2^drop >= 2^LIMB
             IN  IF ~up THEN cut
                 ELSE [i \in 1..LIMBS |->
                          IF i > f THEN 0
                          ELSE IF i = f THEN (cut[f] + 2^drop) % 2^LIMB
                          ELSE IF over /\ \A k \in (i + 1)..(f - 1) :
                                              cut[k] = 2^LIMB - 1
                               THEN (cut[i] + 1) % 2^LIMB
                               ELSE cut[i]]

Less(a, b) ==
    \E i \in 1..Len(a) : a[i] < b[i] /\ \A j \in 1..(i - 1) : a[j] = b[j]

\* a - b for a >= b: a group borrows when the groups to its right are less.
Sub(a, b) ==
    [i \in 1..Len(a) |->
        LET borrow == \E j \in (i + 1)..Len(a) :
                          a[j] < b[j] /\ \A k \in (i + 1)..(j - 1) : a[k] = b[k]
        IN  (a[i] - b[i] - (IF borrow THEN 1 ELSE 0) + 2^LIMB) % 2^LIMB]

\* a * m for a small natural number m, group by group from the right.
RECURSIVE MulFrom(_, _, _, _)
MulFrom(a, m, i, carry) ==
    IF i = 0 THEN <<>>
    ELSE LET d == a[i] * m + carry
         IN  IF d < 2^LIMB THEN MulFrom(a, m, i - 1, 0) \o <<d>>
             ELSE MulFrom(a, m, i - 1, d \div 2^LIMB) \o <<d % 2^LIMB>>

MulSmall(a, m) == MulFrom(a, m, LIMBS, 0)

\* a / 2^n, the digits pushed beyond WIDTH lost.
ShiftRight(a, n) ==
    LET q == n \div LIMB
        r == n % LIMB
    IN  [i \in 1..LIMBS |->
            (IF i - q >= 1 THEN a[i - q] \div 2^r ELSE 0)
          + (IF i - q - 1 >= 1 THEN (a[i - q - 1] % 2^r) * 2^(LIMB - r) ELSE 0)]

Whole(n) == [i \in 1..LIMBS |-> IF i = 1 THEN n ELSE 0]

Double(neg, mag) ==
    [neg |-> neg /\ \E i \in 1..LIMBS : mag[i] # 0, mag |-> mag]

Zero == Double(FALSE, Whole(0))

One == Double(FALSE, Whole(1))

Neg(x) == Double(~x.neg, x.mag)

\* The double m / 2^s.
Extent(e) == Double(FALSE, ShiftRight(Whole(e.m), e.s))

\* i / d for natural numbers i and d > 0
fdiv(i, d) ==
    Double(FALSE, Round(<<i \div d>> \o FracLimbs(i % d, d, FRAC_LIMBS),
                        Remainder(i % d, d, FRAC_LIMBS) # 0))

\* x * 2, which is exact
fmul2(x) == Double(x.neg, MulSmall(x.mag, 2))

\* x - 1 for x >= 0
fsub1(x) ==
    IF Less(x.mag, One.mag)
    THEN Double(TRUE, Round(Sub(One.mag, x.mag), FALSE))
    ELSE Double(FALSE, Round(Sub(x.mag, One.mag), FALSE))

\* x * (m / 2^s)
fmul(x, e) ==
    Double(x.neg, Round(ShiftRight(MulSmall(x.mag, e.m), e.s), FALSE))

\* a * b for two groups, as the groups hi and lo of the product; every
\* intermediate result stays below 2^31.
MulLimb(a, b) ==
    LET h  == LIMB \div 2
        ah == a \div 2^h
        al == a % 2^h
        bh == b \div 2^h
        bl == b % 2^h
        x  == ah * bh
        m  == ah * bl + al * bh
        lo == (x % 2^(LIMB - 2 * h)) * 2^(2 * h)
                + (m % 2^(LIMB - h)) * 2^h + al * bl
    IN  [hi |-> x \div 2^(LIMB - 2 * h) + m \div 2^(LIMB - h) + lo \div 2^LIMB,
         lo |-> lo % 2^LIMB]

\* What the products of the groups a[1..i] with the groups of b add to
\* group k of a * b.
RECURSIVE Column(_, _, _, _)
Column(a, b, k, i) ==
    IF i = 0 THEN 0
    ELSE (IF k - i + 1 \in 1..LIMBS THEN MulLimb(a[i], b[k - i + 1]).lo ELSE 0)
       + (IF k - i + 2 \in 1..LIMBS THEN MulLimb(a[i], b[k - i + 2]).hi ELSE 0)
       + Column(a, b, k, i - 1)

\* The carries of the groups c[1..i], taken from right to left.
RECURSIVE Carried(_, _, _)
Carried(c, i, carry) ==
    IF i = 0 THEN <<>>
    ELSE Carried(c, i - 1, (c[i] + carry) \div 2^LIMB)
             \o <<(c[i] + carry) % 2^LIMB>>

\* a * b without rounding, for a * b < 2^LIMB: one group before the point
\* and 2 * FRAC_LIMBS groups behind it.
Product(a, b) ==
    Carried([k \in 1..(2 * LIMBS - 1) |-> Column(a, b, k, LIMBS)],
            2 * LIMBS - 1, 0)

\* x * y
fprod(x, y) ==
    LET p == Product(x.mag, y.mag)
    IN  Double(x.neg # y.neg,
               Round([i \in 1..LIMBS |-> p[i]],
                     \E i \in (LIMBS + 1)..(2 * LIMBS - 1) : p[i] # 0))

\* The double i + a / 2^20 + b / 2^40 + c / 2^60
Chunks(i, a, b, c) ==
    Double(FALSE, [k \in 1..LIMBS |->
                      Whole(i)[k] + ShiftRight(Whole(a), 20)[k]
                        + ShiftRight(Whole(b), 40)[k]
                        + ShiftRight(Whole(c), 60)[k]])

\* Math.sqrt(n) for the unison counts: the double nearest to the root
Math_sqrt(n) ==
    CASE n = 1 -> Chunks(1, 0, 0, 0)
      [] n = 2 -> Chunks(1, 434334, 419827, 773376)
      [] n = 3 -> Chunks(1, 767610, 951684, 829952)
      [] n = 4 -> Chunks(2, 0, 0, 0)
      [] n = 5 -> Chunks(2, 247535, 226046, 610304)
      [] n = 6 -> Chunks(2, 471324, 164132, 154624)
      [] n = 7 -> Chunks(2, 677119, 342623, 119808)
      [] n = 8 -> Chunks(2, 868668, 839655, 498176)
      [] n = 9 -> Chunks(3, 0, 0, 0)
      [] n = 10 -> Chunks(3, 170160, 482123, 435712)

\* A normalisation by 1 / n.
voiceGain_linear(n) == fdiv(1, n)

\* 1 / Math.sqrt(n): the double nearest to the quotient
voiceGain(n) ==
    CASE n = 1 -> Chunks(1, 0, 0, 0)
      [] n = 2 -> Chunks(0, 741455, 209913, 910848)
      [] n = 3 -> Chunks(0, 605395, 666753, 626304)
      [] n = 4 -> Chunks(0, 524288, 0, 0)
      [] n = 5 -> Chunks(0, 468937, 464639, 751168)
      [] n = 6 -> Chunks(0, 428079, 376880, 724928)
      [] n = 7 -> Chunks(0, 396324, 498335, 915840)
      [] n = 8 -> Chunks(0, 370727, 629244, 979712)
      [] n = 9 -> Chunks(0, 349525, 349525, 349504)
      [] n = 10 -> Chunks(0, 331588, 887073, 148416)

\* ---------------------------------------------------------------------
\* One Voice in detail (Voice.ts): its oscillator of each unison slot, the
\* noise source, the filter frequency, the amp envelope gain, both envelopes
\* and the glide target.  Frequencies are in units of 0.0001 Hz.  Of
\* SynthParams the fields read here are glide, noise.enabled, ampEnv,
\* filterEnv, filter.cutoff and filter.envAmount (in quarters, so that
\* 2^(envAmount * 4) is a power of two), unison.voices, osc1.enabled and
\* osc1.level (as [num, den], the double num / den), osc2.enabled and
\* subOsc.enabled; every octave and detune is as in DEFAULT_PARAMS.

\* midiToFreq(midi) = 440 * 2^((midi - 69) / 12), for the notes played, in
\* units of 0.0001 Hz.
midiToFreq(note) ==
    CASE note = 60 -> 2616256
      [] note = 64 -> 3296276
      [] note = 67 -> 3919954
      [] note = 69 -> 4400000

\* Two ADSR settings that differ in the attack time.
VoiceEnvs ==
    {env \in ADSRParams : /\ env.decay = 0
                          /\ env.release = 0
                          /\ env.sustain = SUSTAIN}

\* DEFAULT_PARAMS.osc1: enabled, at level 0.8
DEFAULT_OSC1 == [enabled |-> TRUE, level |-> [num |-> 4, den |-> 5]]

\* The unison counts: none to MaxUnison
UnisonCounts == 0..MaxUnison

\* Oscillator levels: 0.8, 0.5 and 1
Levels == {[num |-> 4, den |-> 5], [num |-> 1, den |-> 2], [num |-> 1, den |-> 1]}

FullParams ==
    [glide : Glides, noise : BOOLEAN, ampEnv : VoiceEnvs,
     filterEnv : VoiceEnvs, filter : [cutoff : {MIN_FREQ}, envAmount : {1}],
     unison : {UNISON_VOICES}, osc1 : {DEFAULT_OSC1}, osc2 : {FALSE},
     subOsc : {FALSE}]

\* new Voice(ctx, params, destination)
Voice_constructor(p) ==
    [state |-> [active |-> FALSE, noteNumber |-> 0, velocity |-> 0,
                startTime |-> 0],
     params |-> p,
     targetFreq |-> TARGET_FREQ,
     unisonVoices |-> <<>>,
     noiseNode |-> <<>>,
     noiseGain |-> NewParam(0),
     filterFrequency |-> NewParam(p.filter.cutoff),
     ampEnvGain |-> NewParam(BASE_VALUE),
     ampEnvelope |-> p.ampEnv,
     filterEnvelope |-> <<>>,
     connected |-> TRUE,
     timers |-> {},
     loose |-> FALSE,
     again |-> FALSE]

\* A started source node: ctx.createOscillator() or createBufferSource(),
\* connected and started.
Source(freq, t) ==
    [frequency |-> NewParam(freq), started |-> TRUE, stopped |-> FALSE,
     connected |-> TRUE, createdAt |-> t]

\* One pass of the try block of cleanupOscillators: stop() raises on a node
\* that was never started, and the catch then skips the disconnects.
tearDown(uv) ==
    LET halt(node) == [node EXCEPT !.stopped = TRUE, !.connected = FALSE]
        raises(opt) == opt # <<>> /\ ~opt[1].started
        halted(opt) == IF opt = <<>> THEN opt ELSE <<halt(opt[1])>>
    IN  IF ~uv.osc1.started THEN uv
        ELSE IF raises(uv.osc2) THEN [uv EXCEPT !.osc1 = halt(@)]
        ELSE IF raises(uv.subOsc)
        THEN [uv EXCEPT !.osc1 = halt(@), !.osc2 = halted(@)]
        ELSE [uv EXCEPT !.osc1 = halt(@), !.osc2 = halted(@),
                        !.subOsc = halted(@), !.panner = FALSE]

\* The node still runs or is still connected.
Live(node) == (node.started /\ ~node.stopped) \/ node.connected

\* A cleanup that stops the slots and keeps them in the list.
cleanupOscillators_keepsSlots(v) ==
    [v EXCEPT !.unisonVoices =
                  [i \in 1..Len(v.unisonVoices) |-> tearDown(v.unisonVoices[i])]]

\* cleanupOscillators; loose: a node of a slot that was dropped still runs
\* or is still connected.
cleanupOscillators(v) ==
    [v EXCEPT !.unisonVoices = <<>>,
              !.loose = @ \/ \E i \in 1..Len(v.unisonVoices) :
                                LET uv == tearDown(v.unisonVoices[i])
                                IN  \/ Live(uv.osc1)
                                    \/ uv.osc2 # <<>> /\ Live(uv.osc2[1])
                                    \/ uv.subOsc # <<>> /\ Live(uv.subOsc[1])
                                    \/ uv.panner]

\* The try block around noiseNode.stop() and noiseNode.disconnect().
stopNoise(node) ==
    IF ~node.started THEN node
    ELSE [node EXCEPT !.stopped = TRUE, !.connected = FALSE]

\* A cleanup that forgets the noise source.
cleanupNodes_keepsNoise(v) == cleanupOscillators(v)

\* Voice.cleanup
cleanupNodes(v) ==
    LET v1 == cleanupOscillators(v)
    IN  IF v1.noiseNode = <<>> THEN v1
        ELSE [v1 EXCEPT !.noiseNode = <<>>,
                        !.loose = @ \/ Live(stopNoise(v.noiseNode[1]))]

\* Voice.setFrequencyWithGlide
setFrequencyWithGlide(v, targetFreq, glideTime, t) ==
    [v EXCEPT
        !.unisonVoices =
            [i \in 1..Len(v.unisonVoices) |->
                LET glide(node, freq) ==
                        [node EXCEPT !.frequency =
                            LET f1 == cancelScheduledValues(@, t)
                                f2 == setValueAtTime(f1, f1.value, t)
                            IN  exponentialRampToValueAtTime(f2, Num(freq),
                                                             t + glideTime)]
                    each(opt, freq) ==
                        IF opt = <<>> THEN opt ELSE <<glide(opt[1], freq)>>
                IN  [v.unisonVoices[i] EXCEPT
                        !.osc1 = glide(@, targetFreq),
                        !.osc2 = each(@, targetFreq),
                        !.subOsc = each(@, targetFreq \div 2)]],
        !.targetFreq = targetFreq]

\* osc1.level * voiceGain, for every level and every unison count from 1
\* on, computed once.
osc1Gains ==
    [level \in Levels, n \in UnisonCounts \ {0} |->
        fprod(fdiv(level.num, level.den), voiceGain(n))]

\* Oscillators with a sub oscillator on every slot.
createUnison_subOnEverySlot(v, baseFreq, t) ==
    LET p == v.params
        osc1Gain == IF p.osc1.enabled THEN osc1Gains[p.osc1.level, p.unison]
                    ELSE Zero
    IN  [cleanupOscillators(v) EXCEPT
            !.unisonVoices = @ \o
                [i \in 1..p.unison |->
                    [osc1 |-> Source(baseFreq, t),
                     osc1Gain |-> osc1Gain,
                     osc2 |-> IF p.osc2 THEN <<Source(baseFreq, t)>> ELSE <<>>,
                     subOsc |-> IF p.subOsc
                                THEN <<Source(baseFreq \div 2, t)>>
                                ELSE <<>>,
                     panner |-> TRUE]]]

\* Voice.createOscillators(baseFreq, time)
createUnison(v, baseFreq, t) ==
    LET p == v.params
        osc1Gain == IF p.osc1.enabled THEN osc1Gains[p.osc1.level, p.unison]
                    ELSE Zero
    IN  [cleanupOscillators(v) EXCEPT
            !.unisonVoices = @ \o
                [i \in 1..p.unison |->
                    [osc1 |-> Source(baseFreq, t),
                     osc1Gain |-> osc1Gain,
                     osc2 |-> IF p.osc2 THEN <<Source(baseFreq, t)>> ELSE <<>>,
                     subOsc |-> IF p.subOsc /\ i - 1 = p.unison \div 2
                                THEN <<Source(baseFreq \div 2, t)>>
                                ELSE <<>>,
                     panner |-> TRUE]]]

\* param.value = n
setValue(param, n, t) ==
    [setValueAtTime(param, Num(n), t) EXCEPT !.value = Num(n)]

\* Voice.createNoise(time)
createNoiseNode(v, t) ==
    [v EXCEPT !.noiseNode = <<Source(0, t)>>,
              !.noiseGain = setValue(@, NOISE_LEVEL, t),
              !.loose = @ \/ (v.noiseNode # <<>>
                              /\ Live(stopNoise(v.noiseNode[1])))]

\* 2^n
Pow2(n) == IF n = 0 THEN 1 ELSE IF n = 1 THEN 2 ELSE 4

\* Voice.calculateFilterEnvPeak
calculateFilterEnvPeak(filter) ==
    IF filter.envAmount >= 0
    THEN LET peak == filter.cutoff * Pow2(filter.envAmount)
         IN  IF peak < MAX_FREQ THEN peak ELSE MAX_FREQ
    ELSE Max(filter.cutoff \div Pow2(0 - filter.envAmount), MIN_FREQ)

\* Voice.noteOn(noteNumber, velocity, time)
Voice_noteOnAt(v, noteNumber, velocity, t) ==
    LET freq == midiToFreq(noteNumber)
        v1   == [v EXCEPT !.state = [active |-> TRUE,
                                     noteNumber |-> noteNumber,
                                     velocity |-> velocity,
                                     startTime |-> t]]
        v2   == IF v1.params.glide > 0 /\ v1.targetFreq # freq
                THEN setFrequencyWithGlide(v1, freq, v1.params.glide, t)
                ELSE [v1 EXCEPT !.targetFreq = freq]
        v3   == createUnison(v2, freq, t)
        v4   == IF v3.params.noise THEN createNoiseNode(v3, t) ELSE v3
    IN  [v4 EXCEPT
            !.ampEnvGain = triggerAttack(@, v4.ampEnvelope, BASE_VALUE,
                                         PEAK_VALUE, t, velocity),
            !.filterEnvelope = <<v4.params.filterEnv>>,
            !.filterFrequency =
                triggerAttack(@, v4.params.filterEnv, v4.params.filter.cutoff,
                              calculateFilterEnvPeak(v4.params.filter),
                              t, velocity)]

\* Voice.noteOff(time)
Voice_noteOffAt(v, t) ==
    [v EXCEPT
        !.ampEnvGain = triggerRelease(@, v.ampEnvelope, t),
        !.filterFrequency = IF v.filterEnvelope = <<>> THEN @
                            ELSE triggerRelease(@, v.filterEnvelope[1], t),
        !.timers = @ \cup {t + v.params.ampEnv.release + CLEANUP_MARGIN},
        !.state.active = FALSE]

\* Voice.stop
Voice_stopNow(v) == cleanupNodes([v EXCEPT !.state.active = FALSE])

\* Voice.dispose
Voice_disposeNow(v) == [Voice_stopNow(v) EXCEPT !.connected = FALSE]

\* Voice.updateParams(params)
Voice_updateParamsAt(v, p, t) ==
    [v EXCEPT
        !.params = p,
        !.filterFrequency = smoothParam(@, p.filter.cutoff, t),
        !.noiseGain = IF v.noiseNode = <<>> THEN @
                      ELSE smoothParam(@, IF p.noise THEN NOISE_LEVEL ELSE 0,
                                       t)]

\* The voice has played and has been stopped: no note, no source node.
Stopped(v) ==
    /\ ~v.state.active
    /\ v.state.noteNumber # 0
    /\ v.unisonVoices = <<>>
    /\ v.noiseNode = <<>>

renderVoice(v, t) ==
    [v EXCEPT
        !.unisonVoices =
            [i \in 1..Len(v.unisonVoices) |->
                LET each(opt) ==
                        IF opt = <<>> THEN opt
                        ELSE <<[opt[1] EXCEPT !.frequency = renderParam(@, t)]>>
                IN  [v.unisonVoices[i] EXCEPT
                        !.osc1.frequency = renderParam(@, t),
                        !.osc2 = each(@),
                        !.subOsc = each(@)]],
        !.noiseGain = renderParam(@, t),
        !.filterFrequency = renderParam(@, t),
        !.ampEnvGain = renderParam(@, t)]

voiceFrame ==
    UNCHANGED <<synthVars, now, engine, rack, dsp, midi, unison, keyboard, sweep>>

voiceNoteOn(noteNumber, velocity) ==
    /\ now <= MaxTime
    /\ solo.connected
    /\ solo' = [Voice_noteOnAt(solo, noteNumber, velocity, now)
                    EXCEPT !.again = FALSE]
    /\ voiceFrame

voiceNoteOff ==
    /\ now <= MaxTime
    /\ solo.connected
    /\ solo' = [Voice_noteOffAt(solo, now) EXCEPT !.again = FALSE]
    /\ voiceFrame

voiceStop ==
    /\ solo' = [Voice_stopNow(solo) EXCEPT !.again = Stopped(solo)]
    /\ voiceFrame

voiceDispose ==
    /\ solo' = [Voice_disposeNow(solo) EXCEPT !.again = Stopped(solo)]
    /\ voiceFrame

voiceUpdateParams(p) ==
    /\ now <= MaxTime
    /\ solo.connected
    /\ solo' = [Voice_updateParamsAt(solo, p, now) EXCEPT !.again = FALSE]
    /\ voiceFrame

\* The callback of the setTimeout in Voice.noteOff.
voiceTimerFires(dueAt) ==
    /\ dueAt \in solo.timers
    /\ now >= dueAt
    /\ solo' = [(IF solo.state.active THEN solo ELSE cleanupNodes(solo))
                    EXCEPT !.timers = @ \ {dueAt}, !.again = FALSE]
    /\ voiceFrame

\* ---------------------------------------------------------------------
\* Unison spread (helpers: generateUnisonDetunes, generateUnisonPans),
\* computed in doubles.

\* A spread with t = i / voiceCount.
generateUnisonPans_overCount(voiceCount, spread) ==
    IF voiceCount <= 1 THEN <<Zero>>
    ELSE [k \in 1..voiceCount |->
             LET t == fdiv(k - 1, voiceCount)
             IN  fmul(fsub1(fmul2(t)), spread)]

\* helpers: generateUnisonDetunes(voiceCount, maxDetune)
generateUnisonDetunes(voiceCount, maxDetune) ==
    IF voiceCount <= 1 THEN <<Zero>>
    ELSE [k \in 1..voiceCount |->
             LET t == fdiv(k - 1, voiceCount - 1)
             IN  fmul(fsub1(fmul2(t)), maxDetune)]

\* helpers: generateUnisonPans(voiceCount, spread)
generateUnisonPans(voiceCount, spread) ==
    IF voiceCount <= 1 THEN <<Zero>>
    ELSE [k \in 1..voiceCount |->
             LET t == fdiv(k - 1, voiceCount - 1)
             IN  fmul(fsub1(fmul2(t)), spread)]

\* UnisonParams: voices, detune (cents) and spread; 0.5 is [m |-> 1, s |-> 1].
Detunes == {[m |-> d, s |-> 0] : d \in {0, 7, 10, 50}}
Spreads == {[m |-> 1, s |-> e] : e \in {0, 1, 2}}

\* What Voice.createOscillators computes from params.unison.
spreadOf(u) ==
    [params  |-> u,
     detunes |-> generateUnisonDetunes(u.voices, u.detune),
     pans    |-> generateUnisonPans(u.voices, u.spread)]

\* DEFAULT_PARAMS.unison: one voice, 10 cents, spread 0.5
IdleUnison ==
    spreadOf([voices |-> UNISON_VOICES, detune |-> [m |-> 10, s |-> 0],
              spread |-> [m |-> 1, s |-> 1]])

unisonFrame ==
    UNCHANGED <<synthVars, now, engine, rack, dsp, solo, midi, keyboard, sweep>>

\* The unison parameters are edited, one field at a time, and the next
\* note-on computes the spread from them.
setVoices(n) ==
    /\ unison' = spreadOf([unison.params EXCEPT !.voices = n])
    /\ unisonFrame

setDetune(d) ==
    /\ unison' = spreadOf([unison.params EXCEPT !.detune = d])
    /\ unisonFrame

setSpread(e) ==
    /\ unison' = spreadOf([unison.params EXCEPT !.spread = e])
    /\ unisonFrame

\* ---------------------------------------------------------------------
\* WebMIDI (webmidi.ts) and the callback MIDIPanel registers with it.
\* callback: this.callback is set.  History: event, the bytes of the last
\* MIDI event handled; message, what the callback was given for it; call,
\* what the callback of MIDIPanel then called.

\* 0x80 Note Off, 0x90 and 0x91 Note On (channels 1 and 2), 0xB0 Control
\* Change, 0xE0 Pitch Bend.
StatusBytes == {128, 144, 145, 176, 224}
DataBytes == {0, 1, 64, 127}

NoMidi == [callback |-> FALSE, event |-> <<>>, message |-> <<>>, call |-> <<>>]

\* data2 / 127, kept as the fraction.
Fraction127(data2) == [num |-> data2, den |-> 127]

\* A handler that passes every Note On as a noteon.
handleMIDIMessage_everyNoteOn(m, data) ==
    IF ~m.callback \/ data = <<>> THEN <<>>
    ELSE LET status  == data[1]
             data1   == data[2]
             data2   == data[3]
             channel == (status % 16) + 1
             type    == status - (status % 16)
         IN  CASE type = 144 ->
                    <<[type |-> "noteon", channel |-> channel,
                       note |-> data1, velocity |-> Fraction127(data2)]>>
               [] type = 128 ->
                    <<[type |-> "noteoff", channel |-> channel,
                       note |-> data1]>>
               [] type = 176 ->
                    <<[type |-> "cc", channel |-> channel, cc |-> data1,
                       value |-> Fraction127(data2)]>>
               [] OTHER -> <<>>

\* WebMIDI.handleMIDIMessage(event): the message handed to the callback, if
\* any.  status & 0x0f is status % 16, status & 0xf0 is status less that.
handleMIDIMessage(m, data) ==
    IF ~m.callback \/ data = <<>> THEN <<>>
    ELSE LET status  == data[1]
             data1   == data[2]
             data2   == data[3]
             channel == (status % 16) + 1
             type    == status - (status % 16)
         IN  CASE type = 144 ->
                    IF data2 > 0
                    THEN <<[type |-> "noteon", channel |-> channel,
                            note |-> data1, velocity |-> Fraction127(data2)]>>
                    ELSE <<[type |-> "noteoff", channel |-> channel,
                            note |-> data1]>>
               [] type = 128 ->
                    <<[type |-> "noteoff", channel |-> channel,
                       note |-> data1]>>
               [] type = 176 ->
                    <<[type |-> "cc", channel |-> channel, cc |-> data1,
                       value |-> Fraction127(data2)]>>
               [] OTHER -> <<>>

\* The callback of MIDIPanel: onNoteOn(note, velocity) or onNoteOff(note).
panelCallback(message) ==
    IF message = <<>> THEN <<>>
    ELSE LET msg == message[1]
         IN  IF /\ msg.type = "noteon"
                /\ "note" \in DOMAIN msg
                /\ "velocity" \in DOMAIN msg
             THEN <<"onNoteOn", msg.note, msg.velocity>>
             ELSE IF msg.type = "noteoff" /\ "note" \in DOMAIN msg
             THEN <<"onNoteOff", msg.note>>
             ELSE <<>>

midiFrame ==
    UNCHANGED <<synthVars, now, engine, rack, dsp, solo, unison, keyboard, sweep>>

\* midi.onMessage(callback)
onMessage ==
    /\ midi' = [midi EXCEPT !.callback = TRUE]
    /\ midiFrame

\* The selected input delivers an event with these three bytes.
midiEvent(status, data1, data2) ==
    /\ LET data    == <<status, data1, data2>>
           message == handleMIDIMessage(midi, data)
       IN  midi' = [midi EXCEPT !.event = data,
                                !.message = message,
                                !.call = panelCallback(message)]
    /\ midiFrame

\* ---------------------------------------------------------------------
\* The Keyboard component (Keyboard.tsx), between renders.  activeNotes and
\* octaveOffset are its React state, pressedKeys is pressedKeysRef.current.
\* held: the keys of the computer keyboard that are physically down.
\* History: down, for every mapped key, the note its key-down passed to
\* onNoteOn (at most one); sounding, the notes passed to onNoteOn and not
\* since to onNoteOff; call, what the last event called.

\* KEY_MAP: a is C3 and k is C4, an octave apart
KEY_MAP == ("a" :> 48) @@ ("k" :> 60)

\* The keys pressed: two mapped keys, the octave shifts and an unmapped key.
KeyNames == {"a", "k", "z", "x", "q"}

NewKeyboard ==
    [activeNotes |-> {}, octaveOffset |-> 0, pressedKeys |-> {},
     held |-> {}, down |-> [key \in DOMAIN KEY_MAP |-> <<>>],
     sounding |-> {}, call |-> <<>>]

\* handleNoteOn(note), with the default velocity
handleNoteOn(kb, note) ==
    IF note \notin kb.activeNotes
    THEN [kb EXCEPT !.activeNotes = @ \cup {note},
                    !.sounding = @ \cup {note},
                    !.call = <<"onNoteOn", note>>]
    ELSE kb

\* handleNoteOff(note)
handleNoteOff(kb, note) ==
    [kb EXCEPT !.activeNotes = @ \ {note},
               !.sounding = @ \ {note},
               !.call = <<"onNoteOff", note>>]

\* handleKeyDown(e), e.key in lower case
handleKeyDown(kb, key, repeat) ==
    IF repeat THEN kb
    ELSE IF key = "z"
    THEN [kb EXCEPT !.octaveOffset = Max(@ - 1, -2)]
    ELSE IF key = "x"
    THEN [kb EXCEPT !.octaveOffset = IF @ + 1 < 2 THEN @ + 1 ELSE 2]
    ELSE IF key \in DOMAIN KEY_MAP /\ key \notin kb.pressedKeys
    THEN LET note == KEY_MAP[key] + kb.octaveOffset * 12
             sent == handleNoteOn([kb EXCEPT !.pressedKeys = @ \cup {key}],
                                  note)
         IN  [sent EXCEPT !.down[key] =
                              IF sent.call = <<>> THEN <<>> ELSE <<note>>]
    ELSE kb

\* handleKeyUp(e), e.key in lower case
handleKeyUp(kb, key) ==
    IF key \in DOMAIN KEY_MAP /\ key \in kb.pressedKeys
    THEN LET note == KEY_MAP[key] + kb.octaveOffset * 12
         IN  [handleNoteOff([kb EXCEPT !.pressedKeys = @ \ {key}], note)
                 EXCEPT !.down[key] = <<>>]
    ELSE kb

keyboardFrame ==
    UNCHANGED <<synthVars, now, engine, rack, dsp, solo, midi, unison, sweep>>

\* A keydown event: the first of a key going down, or an auto-repeat of a
\* key that is held.
keyDown(key, repeat) ==
    /\ repeat <=> key \in keyboard.held
    /\ keyboard' = [handleKeyDown([keyboard EXCEPT !.call = <<>>], key, repeat)
                       EXCEPT !.held = @ \cup {key}]
    /\ keyboardFrame

\* The keyup event of a key that is held.
keyUp(key) ==
    /\ key \in keyboard.held
    /\ keyboard' = [handleKeyUp([keyboard EXCEPT !.call = <<>>], key)
                       EXCEPT !.held = @ \ {key}]
    /\ keyboardFrame

\* ---------------------------------------------------------------------
\* The peak of the filter envelope (createFilterEnvelope of envelope.ts;
\* Voice.calculateFilterEnvPeak is the same expression), in doubles of Hz.
\* envAmount is given in quarters, so that envAmount * 4 is a whole number
\* and Math.pow(2, envAmount * 4) a power of two.

\* x * 2^n for a whole number n, which is exact
Scale(x, n) ==
    IF n >= 0 THEN fmul(x, [m |-> 2^n, s |-> 0])
    ELSE fmul(x, [m |-> 1, s |-> 0 - n])

\* Math.min and Math.max of two doubles that are not negative
MathMin(x, y) == IF Less(y.mag, x.mag) THEN y ELSE x

MathMax(x, y) == IF Less(x.mag, y.mag) THEN y ELSE x

\* A peak that is not held above minFreq.
peakFreq_noFloor(baseCutoff, quarters) ==
    IF quarters >= 0
    THEN MathMin(Scale(baseCutoff, quarters), Double(FALSE, Whole(20000)))
    ELSE Scale(baseCutoff, quarters)

\* peakFreq of createFilterEnvelope, for envAmount = quarters / 4
peakFreq(baseCutoff, quarters) ==
    LET minFreq == Double(FALSE, Whole(20))
        maxFreq == Double(FALSE, Whole(20000))
    IN  IF quarters >= 0
        THEN MathMin(Scale(baseCutoff, quarters), maxFreq)
        ELSE MathMax(Scale(baseCutoff, quarters), minFreq)

\* Cutoff frequencies from 20 Hz to 20 kHz, as [num, den]: the double
\* num / den.
Cutoffs ==
    {[num |-> n, den |-> 1] :
        n \in {20, 21, 319, 320, 321, 1249, 1250, 1251, 19999, 20000}}
        \cup {[num |-> 100, den |-> 3], [num |-> 40001, den |-> 32]}

\* envAmount from -1 to 1, in quarters
EnvAmounts == (0 - 4)..4

sweepOf(cutoff, quarters) ==
    [cutoff |-> fdiv(cutoff.num, cutoff.den), envAmount |-> quarters,
     peak |-> peakFreq(fdiv(cutoff.num, cutoff.den), quarters)]

\* The cutoff of DEFAULT_PARAMS.filter, 2000 Hz, and no envelope amount
IdleSweep == sweepOf([num |-> 2000, den |-> 1], 0)

sweepFrame ==
    UNCHANGED <<synthVars, now, engine, rack, dsp, solo, midi, unison, keyboard>>

\* The filter is set and the next note-on computes the peak from it.
setFilter(cutoff, quarters) ==
    /\ sweep' = sweepOf(cutoff, quarters)
    /\ sweepFrame

\* The audio clock advances: every parameter follows its automation.
render ==
    /\ now < MaxTime
    /\ now' = now + Quantum
    /\ dsp' = renderDsp(dsp, now')
    /\ rack' = renderRack(rack, now')
    /\ engine' = [engine EXCEPT !.masterGain = renderParam(@, now')]
    /\ solo' = renderVoice(solo, now')
    /\ UNCHANGED <<synthVars, midi, unison, keyboard, sweep>>

\* ---------------------------------------------------------- specifications
\* The voice pool: three notes, any polyphony, one envelope and noise
\* setting.
PoolParams == {p \in SynthParams : p.release = 0 /\ p.noise}
PoolNotes == {nv \in Notes \X Velocities : nv[1] = 60 \/ nv[2] = 100}

\* DEFAULT_PARAMS.ampEnv
DEFAULT_ENV ==
    [attack |-> 10, decay |-> 200, sustain |-> SUSTAIN,
     release |-> DEFAULT_RELEASE]

\* A voice that was constructed and never played.
IdleVoice ==
    Voice_constructor([glide |-> 0, noise |-> FALSE, ampEnv |-> DEFAULT_ENV,
                       filterEnv |-> DEFAULT_ENV,
                       filter |-> [cutoff |-> MIN_FREQ, envAmount |-> 1],
                       unison |-> UNISON_VOICES, osc1 |-> DEFAULT_OSC1,
                       osc2 |-> FALSE, subOsc |-> FALSE])

\* The engine is not initialised, there is no rack and nothing touches the
\* envelope or the LFO.
AudioIdle ==
    /\ engine = NewEngine
    /\ rack = NoRack
    /\ dsp = NewDsp(DEFAULT_ENV)
    /\ solo = IdleVoice
    /\ midi = NoMidi
    /\ unison = IdleUnison
    /\ keyboard = NewKeyboard
    /\ sweep = IdleSweep

\* No synth: an empty pool.
SynthIdle == InitWith(NoSynthParams)

Init == (\E p \in PoolParams : InitWith(p)) /\ AudioIdle

Next ==
    \/ \E nv \in PoolNotes : noteOn(nv[1], nv[2])
    \/ \E n \in Notes : noteOff(n)
    \/ panic
    \/ \E p \in PoolParams : updateParams(p)
    \/ \E t \in timers : timerFires(t)
    \/ Tick

Spec == Init /\ [][Next]_vars

\* The voice life cycle: two notes, every envelope and noise setting, a pool
\* of one voice.
VoiceParams == {p \in SynthParams : p.polyphony = 1}
VoiceNotes == {n \in Notes : n < 67}

VoiceInit == (\E p \in VoiceParams : InitWith(p)) /\ AudioIdle

VoiceNext ==
    \/ \E n \in VoiceNotes : noteOn(n, 100)
    \/ \E n \in VoiceNotes : noteOff(n)
    \/ panic
    \/ \E p \in VoiceParams : updateParams(p)
    \/ \E t \in timers : timerFires(t)
    \/ Tick

VoiceSpec == VoiceInit /\ [][VoiceNext]_vars

\* Scheduled timers eventually fire and the clock keeps running.
VoiceFairSpec ==
    /\ VoiceSpec
    /\ WF_vars(Tick)
    /\ WF_vars(\E t \in timers : timerFires(t))

\* The effect rack on its own: created from any FXParams, then updated.
FxInit ==
    /\ SynthIdle
    /\ engine = NewEngine
    /\ dsp = NewDsp(DEFAULT_ENV)
    /\ solo = IdleVoice
    /\ midi = NoMidi
    /\ unison = IdleUnison
    /\ keyboard = NewKeyboard
    /\ sweep = IdleSweep
    /\ \E p \in FXParams : rack = createFxRack(p)

FxNext ==
    \/ \E p \in FXParams : fxUpdate(p)
    \/ render

FxSpec == FxInit /\ [][FxNext]_vars

\* The engine: init, setParams with one field at a time, setMasterVolume.
EngineFx ==
    {p \in FXParams : /\ p.distortion = DEFAULT_FX.distortion
                      /\ p.chorus = DEFAULT_FX.chorus
                      /\ p.reverb = DEFAULT_FX.reverb}

Partials ==
    {[polyphony |-> n] : n \in EnginePolyphonies}
        \cup {[masterVolume |-> v] : v \in Volumes}
        \cup {[unison |-> u] : u \in Unisons}
        \cup {[fx |-> p] : p \in EngineFx}

EngineInit ==
    /\ SynthIdle
    /\ engine = NewEngine
    /\ rack = NoRack
    /\ dsp = NewDsp(DEFAULT_ENV)
    /\ solo = IdleVoice
    /\ midi = NoMidi
    /\ unison = IdleUnison
    /\ keyboard = NewKeyboard
    /\ sweep = IdleSweep

EngineNext ==
    \/ init
    \/ \E partial \in Partials : setParams(partial)
    \/ \E v \in Volumes : setMasterVolume(v)
    \/ render

EngineSpec == EngineInit /\ [][EngineNext]_vars

\* The life of the engine at one instant of the audio clock: init() with any
\* outcome, dispose(), notes in and out of the MIDI range, parameters set
\* before and after init().
EngineNotes == {60, 128}

LifePartials == {[polyphony |-> 2], [masterVolume |-> 15000]}

LifeNext ==
    \/ init
    \/ initSuspended
    \/ initResumed
    \/ initRejected
    \/ initThrows
    \/ dispose
    \/ \E n \in EngineNotes : engineNoteOn(n, 100)
    \/ \E n \in EngineNotes : engineNoteOff(n)
    \/ enginePanic
    \/ \E partial \in LifePartials : setParams(partial)
    \/ setMasterVolume(15000)

LifeSpec == EngineInit /\ [][LifeNext]_vars

\* The unison spread: from the defaults, every count of voices from 0 to
\* MaxUnison and every extent is set.
UnisonInit ==
    /\ SynthIdle
    /\ engine = NewEngine
    /\ rack = NoRack
    /\ dsp = NewDsp(DEFAULT_ENV)
    /\ solo = IdleVoice
    /\ midi = NoMidi
    /\ unison = IdleUnison
    /\ keyboard = NewKeyboard
    /\ sweep = IdleSweep

UnisonNext ==
    \/ \E n \in UnisonCounts : setVoices(n)
    \/ \E d \in Detunes : setDetune(d)
    \/ \E e \in Spreads : setSpread(e)

UnisonSpec == UnisonInit /\ [][UnisonNext]_vars

\* MIDI input: the callback is registered at some moment, events of every
\* kind arrive before and after.
MidiInit ==
    /\ SynthIdle
    /\ AudioIdle

MidiNext ==
    \/ onMessage
    \/ \E status \in StatusBytes, data1 \in Notes, data2 \in DataBytes :
          midiEvent(status, data1, data2)

MidiSpec == MidiInit /\ [][MidiNext]_vars

\* One voice: constructed, played, updated, stopped.  Both envelopes are
\* edited together and noise comes with glide.
SoloParams ==
    {p \in FullParams : p.filterEnv = p.ampEnv /\ (p.noise <=> p.glide > 0)}

SoloInit ==
    /\ SynthIdle
    /\ engine = NewEngine
    /\ rack = NoRack
    /\ dsp = NewDsp(DEFAULT_ENV)
    /\ \E p \in SoloParams : solo = Voice_constructor(p)
    /\ midi = NoMidi
    /\ unison = IdleUnison
    /\ keyboard = NewKeyboard
    /\ sweep = IdleSweep

SoloNext ==
    \/ \E n \in VoiceNotes : voiceNoteOn(n, 100)
    \/ voiceNoteOff
    \/ voiceStop
    \/ voiceDispose
    \/ \E p \in SoloParams : voiceUpdateParams(p)
    \/ \E t \in solo.timers : voiceTimerFires(t)
    \/ render

SoloSpec == SoloInit /\ [][SoloNext]_vars

\* One voice with every unison count, three levels of osc1 and osc1
\* disabled, with and without the sub oscillator; osc2 comes with the sub
\* oscillator.  One envelope, no glide and no noise, at one instant of the
\* audio clock.
LayerParams ==
    {p \in [glide : {0}, noise : {FALSE},
            ampEnv : {env \in VoiceEnvs : env.attack = 0},
            filterEnv : {env \in VoiceEnvs : env.attack = 0},
            filter : [cutoff : {MIN_FREQ}, envAmount : {1}],
            unison : UnisonCounts,
            osc1 : [enabled : {TRUE}, level : Levels]
                       \cup {[DEFAULT_OSC1 EXCEPT !.enabled = FALSE]},
            osc2 : BOOLEAN, subOsc : BOOLEAN] : p.osc2 = p.subOsc}

LayerInit ==
    /\ SynthIdle
    /\ engine = NewEngine
    /\ rack = NoRack
    /\ dsp = NewDsp(DEFAULT_ENV)
    /\ \E p \in LayerParams : solo = Voice_constructor(p)
    /\ midi = NoMidi
    /\ unison = IdleUnison
    /\ keyboard = NewKeyboard
    /\ sweep = IdleSweep

LayerNext ==
    \/ \E n \in VoiceNotes : voiceNoteOn(n, 100)
    \/ voiceNoteOff
    \/ voiceStop
    \/ \E p \in LayerParams : voiceUpdateParams(p)

LayerSpec == LayerInit /\ [][LayerNext]_vars

\* An envelope with any ADSR times and an LFO.
DspInit ==
    /\ SynthIdle
    /\ engine = NewEngine
    /\ rack = NoRack
    /\ solo = IdleVoice
    /\ midi = NoMidi
    /\ unison = IdleUnison
    /\ keyboard = NewKeyboard
    /\ sweep = IdleSweep
    /\ \E env \in ADSRParams : dsp = NewDsp(env)

DspNext ==
    \/ \E v \in Velocities : attack(v)
    \/ release
    \/ \E r \in LfoRates : setRate(r)
    \/ \E d \in LfoDepths : setDepth(d)
    \/ render

DspSpec == DspInit /\ [][DspNext]_vars

\* The computer keyboard: keys go down, repeat and come up in any order.
KeyboardInit ==
    /\ SynthIdle
    /\ AudioIdle

KeyboardNext ==
    \/ \E key \in KeyNames, repeat \in BOOLEAN : keyDown(key, repeat)
    \/ \E key \in KeyNames : keyUp(key)

KeyboardSpec == KeyboardInit /\ [][KeyboardNext]_vars

\* The filter envelope peak for every cutoff and envelope amount.
SweepInit ==
    /\ SynthIdle
    /\ AudioIdle

SweepNext == \E cutoff \in Cutoffs, quarters \in EnvAmounts :
                 setFilter(cutoff, quarters)

SweepSpec == SweepInit /\ [][SweepNext]_vars

\* ------------------------------------------------------------------ claims
Silent(v) == v.unisonVoices = 0 /\ ~v.noiseNode

AnswersTo(vo, n) == {id \in DOMAIN vo : vo[id].active /\ vo[id].noteNumber = n}

\* C1: the active-note map is injective: each note number has at most one
\* entry and no two entries hold the same Voice.
C1_MapInjective ==
    \A i, j \in 1..Len(activeNotes) :
        i # j => /\ activeNotes[i][1] # activeNotes[j][1]
                 /\ activeNotes[i][2] # activeNotes[j][2]

\* C1 witness: a steal has just happened and two notes are mapped.
C1_Witness ==
    /\ last.stole
    /\ Len(activeNotes) = 2

\* C2: a noteOn for an unmapped note, with every voice of a non-empty pool
\* active, steals a mapped voice of the smallest startTime: allocateVoice
\* leaves it inactive and torn down, its note leaves the map, no release
\* timer is scheduled, and the new note is mapped to that voice.
C2_StealsOldest ==
    [][\A nv \in PoolNotes :
          (/\ noteOn(nv[1], nv[2])
           /\ ~MapHas(activeNotes, nv[1])
           /\ voices # <<>>
           /\ \A id \in PoolSet(voices) : voiceObj[id].active)
          => LET a == allocateVoice(voiceObj, voices, activeNotes)
                 w == MapGet(activeNotes', nv[1])
             IN  /\ w \in MapValues(activeNotes)
                 /\ \A u \in MapValues(activeNotes) :
                        voiceObj[w].startTime <= voiceObj[u].startTime
                 /\ \A i \in 1..Len(activeNotes) :
                        activeNotes[i][2] = w
                            => ~MapHas(activeNotes', activeNotes[i][1])
                 /\ a.voice = w
                 /\ ~a.objs[w].active /\ Silent(a.objs[w])
                 /\ timers' = timers
                 /\ voiceObj'[w].active
                 /\ voiceObj'[w].noteNumber = nv[1]
                 /\ voiceObj'[w].startTime = now
                 /\ \A id \in DOMAIN voiceObj \ {w} : voiceObj'[id] = voiceObj[id]
      ]_vars

\* C2 witness: a steal took a voice that had started strictly before
\* another mapped voice.
C2_Witness ==
    /\ last.stole /\ last.older
    /\ Len(activeNotes) = 2

\* C3: a noteOn for an already mapped note releases the voice mapped so far
\* (a release timer is scheduled, the voice counts as free for the
\* allocation) before the new voice is armed; afterwards exactly one voice
\* is mapped to the note, it is active and carries the new velocity, and in
\* no state do two active voices carry the same note number.
C3_Retrigger ==
    [][/\ \A n \in Notes : Cardinality(AnswersTo(voiceObj', n)) <= 1
       /\ \A nv \in PoolNotes :
             (noteOn(nv[1], nv[2]) /\ MapHas(activeNotes, nv[1]))
             => LET old == MapGet(activeNotes, nv[1])
                    w == MapGet(activeNotes', nv[1])
                IN  /\ w # NoVoice
                    /\ Cardinality({i \in 1..Len(activeNotes') :
                                       activeNotes'[i][1] = nv[1]}) = 1
                    /\ AnswersTo(voiceObj', nv[1]) = {w}
                    /\ voiceObj'[w].velocity = nv[2]
                    /\ ReleaseTimer(old, voiceObj[old], now) \in
                           {[t EXCEPT !.stale = FALSE] : t \in timers'}
                    /\ w = freeVoice([voiceObj EXCEPT ![old].active = FALSE],
                                     voices)
      ]_vars

\* C3 witness: a retrigger of note 60 with velocity 50 armed another voice
\* than the one released, which had played note 60 with velocity 100.
C3_Witness ==
    /\ last.retrigger
    /\ \E a, b \in DOMAIN voiceObj :
          /\ a # b
          /\ voiceObj[a].active /\ voiceObj[a].noteNumber = 60
          /\ voiceObj[a].velocity = 50
          /\ ~voiceObj[b].active /\ voiceObj[b].noteNumber = 60
          /\ voiceObj[b].velocity = 100

\* C6: panic hard-stops every mapped voice (inactive, oscillators and noise
\* torn down, no release timer scheduled) and leaves the map empty.
C6_PanicStopsMapped ==
    [][panic
       => /\ activeNotes' = <<>>
          /\ \A id \in MapValues(activeNotes) :
                ~voiceObj'[id].active /\ Silent(voiceObj'[id])
          /\ timers' = timers
      ]_vars

\* C6 witness: panic has just stopped a mapped, sounding voice.
C6_Witness ==
    /\ last.stopped
    /\ activeNotes = <<>>

\* C7: noteOn leaves the note unmapped exactly when the pool is empty; then
\* nothing changes; with a non-empty pool the note is mapped to an active
\* voice.
C7_DroppedIffEmptyPool ==
    [][\A nv \in PoolNotes :
          noteOn(nv[1], nv[2])
          => /\ ~MapHas(activeNotes', nv[1]) <=> voices = <<>>
             /\ voices = <<>>
                   => /\ voiceObj' = voiceObj
                      /\ activeNotes' = activeNotes
                      /\ timers' = timers
             /\ voices # <<>>
                   => /\ MapGet(activeNotes', nv[1]) \in PoolSet(voices)
                      /\ voiceObj'[MapGet(activeNotes', nv[1])].active
      ]_vars

\* C7 witness: a noteOn was dropped on an empty pool.
C7_Witness ==
    /\ last.dropped
    /\ voices = <<>>

\* C10: a polyphony decrease disposes an active voice only if it disposes
\* every inactive voice of the pool; a disposed voice is stopped and torn
\* down and no note maps to it; every mapped voice is in the pool.
C10_ShrinkInactiveFirst ==
    [][/\ MapValues(activeNotes') \subseteq PoolSet(voices')
       /\ ((\E p \in PoolParams : updateParams(p)) /\ Len(voices') < Len(voices))
          => LET gone == PoolSet(voices) \ PoolSet(voices')
             IN  /\ Len(voices') = params'.polyphony
                 /\ Cardinality(gone) = Len(voices) - Len(voices')
                 /\ (\E id \in gone : voiceObj[id].active)
                       => \A id \in PoolSet(voices) :
                             ~voiceObj[id].active => id \in gone
                 /\ \A id \in gone :
                       /\ id \notin MapValues(activeNotes')
                       /\ id \notin DOMAIN voiceObj'
                       /\ ~Voice_dispose(voiceObj[id]).active
                       /\ Silent(Voice_dispose(voiceObj[id]))
      ]_vars

\* C10 witness: a shrink has just force-removed an active voice.
C10_Witness ==
    /\ last.forced
    /\ \A id \in PoolSet(voices) : voiceObj[id].active

\* C4: a cleanup timer left over from an earlier release (the voice has had
\* a noteOn since) tears nothing down when it fires.
C4_StaleTimerHarmless ==
    ~(last.tore /\ last.stale)

\* C5: when panic returns, no voice of the pool has running oscillators or
\* a running noise source.
C5_PanicSilencesAll ==
    last.panicked => \A id \in PoolSet(voices) : Silent(voiceObj[id])

\* C8: the cleanup scheduled by a noteOff (and not overtaken by a later
\* noteOn) does not run before the release ramp of that noteOff has ended.
C8_CleanupAfterReleaseTail ==
    last.tore /\ ~last.stale => ~last.early

\* C9: a released voice (inactive, oscillators or noise still running) is
\* eventually torn down or active again.
C9_ReleasedVoiceReturns ==
    \A id \in Polyphonies :
        (id \in DOMAIN voiceObj /\ ~voiceObj[id].active /\ ~Silent(voiceObj[id]))
        ~> (id \notin DOMAIN voiceObj \/ voiceObj[id].active \/ Silent(voiceObj[id]))

\* C9 witness: the timer of a release has just torn a released voice down.
C9_Witness ==
    /\ last.tore /\ ~last.stale
    /\ \A id \in PoolSet(voices) : ~voiceObj[id].active /\ Silent(voiceObj[id])

\* C11: when a polyphony decrease removes an active voice, it removes every
\* active voice that stands before it in the pool (lower pool index) too.
C11_ForcedOldestPoolFirst ==
    [][(\E p \in PoolParams : updateParams(p))
          => \A i, j \in 1..Len(voices) :
                (/\ i < j
                 /\ voiceObj[voices[i]].active
                 /\ voiceObj[voices[j]].active
                 /\ voices[j] \notin PoolSet(voices'))
                => voices[i] \notin PoolSet(voices')
      ]_vars

\* C12: after updateParams(p) the pool has exactly p.polyphony voices; when
\* the pool grows, the old voices keep their places and their state, the note
\* map is unchanged and the appended voices are new, inactive, silent and
\* unmapped.
C12_PoolSizeIsPolyphony ==
    [][\A p \in PoolParams :
          updateParams(p)
          => /\ Len(voices') = p.polyphony
             /\ Len(voices') > Len(voices)
                => /\ SubSeq(voices', 1, Len(voices)) = voices
                   /\ activeNotes' = activeNotes
                   /\ \A id \in PoolSet(voices) :
                         voiceObj'[id] = [voiceObj[id] EXCEPT !.params = p]
                   /\ \A i \in (Len(voices) + 1)..Len(voices') :
                         /\ voices'[i] \notin PoolSet(voices)
                         /\ \A k \in 1..Len(voices') :
                               voices'[k] = voices'[i] => k = i
                         /\ ~voiceObj'[voices'[i]].active
                         /\ Silent(voiceObj'[voices'[i]])
                         /\ voices'[i] \notin MapValues(activeNotes')
      ]_vars

\* C12 witness: the pool has just grown to two voices while a note was held.
C12_Witness ==
    /\ last.grew
    /\ Len(voices) = 2
    /\ Len(activeNotes) = 1

\* The documented ranges: polyphony 1 to 16, unison voices 1 to 7,
\* masterVolume 0 to 1.
PolyphonyRange == 1..16
UnisonRange == 1..7
VolumeRange == 0..UNITY_GAIN

\* C13: the engine's stored polyphony, unison voices and masterVolume are
\* always within their documented ranges, and so is the size of the voice
\* pool once the engine is initialised.
C13_ParamsClamped ==
    /\ engine.params.polyphony \in PolyphonyRange
    /\ engine.params.unison \in UnisonRange
    /\ engine.params.masterVolume \in VolumeRange
    /\ engine.initialized => Len(voices) \in PolyphonyRange

\* C14: while the delay is enabled, its left and right feedback gains read
\* at most 0.95, and so does every value scheduled for them.
C14_FeedbackAtMost095 ==
    rack.slot["delay"] # <<>>
    => \A param \in {rack.slot["delay"][1].feedbackL,
                     rack.slot["delay"][1].feedbackR} :
          /\ param.value[1] <= MAX_FEEDBACK
          /\ \A i \in 1..Len(param.events) :
                param.events[i].value[1] <= MAX_FEEDBACK

\* The connections of one linear path through the stages in the order
\* Distortion, Chorus, Delay, Reverb, Limiter, together with the inner path
\* of the limiter and of each effect that exists.
LinearPath(r) ==
    LET order == <<"distortion", "chorus", "delay", "reverb">>
        in(i)  == IF r.slot[order[i]] # <<>>
                  THEN NodeIn(order[i], r.slot[order[i]][1].gen)
                  ELSE Bypass(order[i])
        out(i) == IF r.slot[order[i]] # <<>>
                  THEN NodeOut(order[i], r.slot[order[i]][1].gen)
                  ELSE Bypass(order[i])
    IN  {<<RackInput, in(1)>>}
            \cup {<<out(i), in(i + 1)>> : i \in 1..3}
            \cup {<<out(4), LimiterIn>>, <<LimiterIn, LimiterOut>>,
                  <<LimiterOut, RackOutput>>}
            \cup {<<in(i), out(i)>> : i \in {k \in 1..4 : r.slot[order[k]] # <<>>}}

\* C15: the connections of the rack are exactly one linear path input ->
\* Distortion -> Chorus -> Delay -> Reverb -> Limiter -> output (an effect
\* that is off replaced by its bypass node): nothing leads into or out of a
\* disposed effect, nothing is doubled, the limiter is the last stage.
C15_OneLinearPath ==
    rack.edges = LinearPath(rack)

\* C15 witness: the chain was rebuilt around a second chorus instance and a
\* delay that was switched off again.
C15_Witness ==
    /\ rack.slot["chorus"] # <<>>
    /\ rack.made["chorus"] = 2
    /\ rack.slot["delay"] = <<>>
    /\ rack.made["delay"] = 1

\* C16: after createFxRack(p) and after every updateParams(p) a stage has an
\* effect exactly if p enables it, and that effect is wired into the chain;
\* the slot of a stage that is off is its bypass node, with a gain of 1, fed
\* by exactly one connection and feeding exactly one.
C16_LiveIffEnabled ==
    \A st \in StageSet :
        /\ (rack.slot[st] # <<>>) <=> rack.asked[st].enabled
        /\ rack.slot[st] # <<>>
           => LET g == rack.slot[st][1].gen
              IN  /\ \E e \in rack.edges : e[2] = NodeIn(st, g)
                  /\ \E e \in rack.edges : e[1] = NodeOut(st, g)
                  /\ \A e \in rack.edges : Bypass(st) \notin {e[1], e[2]}
        /\ rack.slot[st] = <<>>
           => /\ rack.bypass[st] = Num(UNITY_GAIN)
              /\ Cardinality({e \in rack.edges : e[2] = Bypass(st)}) = 1
              /\ Cardinality({e \in rack.edges : e[1] = Bypass(st)}) = 1

\* C16 witness: an update has switched the distortion off, with the reverb
\* running behind it.
C16_Witness ==
    /\ rack.slot["distortion"] = <<>>
    /\ rack.made["distortion"] = 1
    /\ rack.slot["reverb"] # <<>>
    /\ rack.made["reverb"] = 2

\* C17: an update that disables a stage leaves no instance in its slot and
\* no connection out of the old instance; an update that enables a stage
\* puts a new instance there, in the state that the constructor gives it for
\* the parameters of this update.
C17_NoStateAcrossCycle ==
    [][\A st \in StageSet :
          /\ ~rack'.asked[st].enabled => rack'.slot[st] = <<>>
          /\ (rack.slot[st] # <<>> /\ rack'.slot[st] = <<>>)
             => \A e \in rack'.edges :
                   e[1] \notin {NodeIn(st, rack.slot[st][1].gen),
                                NodeOut(st, rack.slot[st][1].gen)}
          /\ (rack.slot[st] = <<>> /\ rack'.slot[st] # <<>>)
             => /\ rack'.slot[st][1].gen # rack.made[st]
                /\ rack'.slot[st][1] =
                      IF st = "delay"
                      THEN [gen |-> rack'.slot[st][1].gen,
                            feedbackL |-> NewParam(rack'.asked[st].feedback),
                            feedbackR |-> NewParam(rack'.asked[st].feedback)]
                      ELSE [gen |-> rack'.slot[st][1].gen,
                            wetGain |-> NewParam(rack'.asked[st].mix)]
      ]_vars

\* C17 witness: the delay is in its second instance, whose feedback gain
\* reads the value of the enabling update and has nothing scheduled.
C17_Witness ==
    /\ rack.slot["delay"] # <<>>
    /\ rack.made["delay"] = 2
    /\ rack.asked["delay"].feedback < MAX_FEEDBACK
    /\ rack.slot["delay"][1].feedbackL = NewParam(rack.asked["delay"].feedback)
    /\ rack.slot["chorus"] = <<>>
    /\ rack.made["chorus"] = 0

\* A write of target at time t that is a ramp: at t the parameter still has
\* the value old.value it read before, and SMOOTH_TIME later it has target.
Ramped(old, new, target, t) ==
    /\ ValueAt(new, t) = old.value
    /\ ValueAt(new, t + SMOOTH_TIME) = Num(target)

\* C18: a live write of an LFO's rate or depth is a ramp from the value the
\* parameter reads to the new value, reached after the smoothing time.
C18_LiveWritesAreRamps ==
    [][/\ \A r \in LfoRates :
             setRate(r)
             => Ramped(dsp.lfo.frequency, dsp'.lfo.frequency, r, now)
       /\ \A d \in LfoDepths :
             setDepth(d) => Ramped(dsp.lfo.gain, dsp'.lfo.gain, d, now)
      ]_vars

\* The value lies above the number base: the start and every ramp target
\* it is made of do.
Above(value, base) ==
    /\ value[1] > base
    /\ \A k \in 2..Len(value) : k % 3 = 2 => value[k] > base

\* C19: when triggerAttack finds the parameter reading above the base
\* value, the attack starts from the value the parameter reads.
C19_AttackFromCurrent ==
    [][\A v \in Velocities :
          (attack(v) /\ Above(dsp.gain.value, BASE_VALUE))
          => ValueAt(dsp'.gain, now) = dsp.gain.value
      ]_vars

\* C20: triggerRelease at the time now leaves, from now on, exactly two
\* events: the value the parameter read, held at now, and one exponential
\* ramp to 0.0001 that ends max(release, 5 ms) later; what was scheduled
\* before now stays, every attack or decay segment from now on is gone.
C20_ReleaseCancelsAndRamps ==
    [][release
          => LET releaseEnd == now + Max(dsp.env.release, MIN_TIME)
                 past   == SelectSeq(dsp.gain.events, LAMBDA e : e.time < now)
                 coming == SelectSeq(dsp'.gain.events, LAMBDA e : e.time >= now)
             IN  /\ SelectSeq(dsp'.gain.events, LAMBDA e : e.time < now) = past
                 /\ coming = <<Event("set", dsp.gain.value, now),
                               Event("exp", Num(EPSILON), releaseEnd)>>
                 /\ ValueAt(dsp'.gain, now) = dsp.gain.value
                 /\ ValueAt(dsp'.gain, releaseEnd) = Num(EPSILON)
      ]_vars

\* C20 witness: a release has just caught the envelope in the middle of its
\* decay ramp and holds the value read there.
C20_Witness ==
    /\ Len(dsp.gain.value) > 1
    /\ dsp.gain.value[2] > EPSILON
    /\ \E i \in 1..(Len(dsp.gain.events) - 1) :
          /\ dsp.gain.events[i] = Event("set", dsp.gain.value, now)
          /\ dsp.gain.events[i + 1].type = "exp"
          /\ dsp.gain.events[i + 1].value = Num(EPSILON)

\* C21: triggerAttack at the time now schedules, from now on and in this
\* order, the base value at now, a linear ramp to peak = base + (peakValue -
\* base) * velocity ending max(attack, 5 ms) later, and an exponential ramp
\* to max(base + (peak - base) * sustain, 0.0001) ending max(decay, 5 ms)
\* after that; every segment takes time and the exponential target is not 0.
C21_AttackSchedule ==
    [][\A v \in Velocities :
          attack(v)
          => LET peak      == BASE_VALUE + ((PEAK_VALUE - BASE_VALUE) * v) \div 100
                 sustained == BASE_VALUE + ((peak - BASE_VALUE) * dsp.env.sustain) \div 100
                 attackEnd == now + (IF dsp.env.attack > MIN_TIME
                                     THEN dsp.env.attack ELSE MIN_TIME)
                 decayEnd  == attackEnd + (IF dsp.env.decay > MIN_TIME
                                           THEN dsp.env.decay ELSE MIN_TIME)
                 coming    == SelectSeq(dsp'.gain.events, LAMBDA e : e.time >= now)
             IN  /\ coming = <<Event("set", Num(BASE_VALUE), now),
                               Event("lin", Num(peak), attackEnd),
                               Event("exp", Num(IF sustained > EPSILON
                                                THEN sustained ELSE EPSILON),
                                     decayEnd)>>
                 /\ coming[1].time < coming[2].time
                 /\ coming[2].time < coming[3].time
                 /\ coming[3].value[1] > 0
      ]_vars

\* C21 witness: an attack with attack 0, decay 0 and sustain 0 has just been
\* scheduled: both ramps take the 5 ms floor and the exponential ramp goes to
\* the 0.0001 floor.
C21_Witness ==
    /\ dsp.env.attack = 0 /\ dsp.env.decay = 0 /\ dsp.env.sustain = 0
    /\ \E i \in 1..(Len(dsp.gain.events) - 2) :
          /\ dsp.gain.events[i] = Event("set", Num(BASE_VALUE), now)
          /\ dsp.gain.events[i + 1].type = "lin"
          /\ dsp.gain.events[i + 1].time = now + MIN_TIME
          /\ dsp.gain.events[i + 2] =
                Event("exp", Num(EPSILON), now + MIN_TIME + MIN_TIME)

\* C22: a noteOn with glide > 0 and a frequency other than the held target,
\* on a voice that has oscillators, keeps these oscillators and ramps each
\* exponentially to the new target over the glide time.
C22_GlideKeepsOscillators ==
    [][\A n \in VoiceNotes :
          /\ voiceNoteOn(n, 100)
          /\ solo.params.glide > 0
          /\ solo.targetFreq # midiToFreq(n)
          /\ solo.unisonVoices # <<>>
          => /\ Len(solo'.unisonVoices) = Len(solo.unisonVoices)
             /\ \A i \in 1..Len(solo.unisonVoices) :
                   LET old == solo.unisonVoices[i].osc1
                       new == solo'.unisonVoices[i].osc1
                   IN  /\ new.createdAt = old.createdAt
                       /\ \E k \in 1..Len(new.frequency.events) :
                             new.frequency.events[k] =
                                Event("exp", Num(midiToFreq(n)),
                                      now + solo.params.glide)
      ]_vars

\* C23: a noteOn schedules the amp envelope with the ampEnv, and the filter
\* envelope with the filterEnv, of the parameters the voice holds at that
\* moment, whatever they were when the voice was constructed.
C23_NoteOnUsesCurrentEnvelopes ==
    [][\A n \in VoiceNotes :
          voiceNoteOn(n, 100)
          => /\ solo'.ampEnvGain =
                   triggerAttack(solo.ampEnvGain, solo.params.ampEnv,
                                 BASE_VALUE, PEAK_VALUE, now, 100)
             /\ solo'.filterFrequency =
                   triggerAttack(solo.filterFrequency, solo.params.filterEnv,
                                 solo.params.filter.cutoff,
                                 calculateFilterEnvPeak(solo.params.filter),
                                 now, 100)
      ]_vars

\* C25: from every state of a voice, stop() and dispose() leave it inactive
\* with no oscillator and no noise source, none of them left running or
\* connected, and a second stop() or dispose() changes nothing more; a voice
\* on which they ran when it was already stopped is in that state.
C25_StopDisposeIdempotent ==
    LET s == Voice_stopNow(solo)
        d == Voice_disposeNow(solo)
        Torn(v) == /\ ~v.state.active
                   /\ v.unisonVoices = <<>>
                   /\ v.noiseNode = <<>>
                   /\ ~v.loose
    IN  /\ Torn(s) /\ Torn(d) /\ ~d.connected
        /\ Voice_stopNow(s) = s
        /\ Voice_disposeNow(d) = d
        /\ Voice_stopNow(d) = d
        /\ Voice_disposeNow(s) = d
        /\ solo.again => Torn(solo)

\* C25 witness: dispose() or stop() has just run on a disposed voice that had
\* played with a noise source and was already stopped.
C25_Witness ==
    /\ solo.again
    /\ ~solo.connected
    /\ solo.params.noise
    /\ solo.state.noteNumber # 0

\* The note numbers of MIDI.
MidiRange == 0..127

\* C24: a noteOn or noteOff with a note number outside 0..127, and a noteOff
\* for a note that is not in the note map, leave the note map and every
\* voice as they are and schedule no timer.
C24_BadNotesIgnored ==
    [][\A n \in EngineNotes :
          /\ (n \notin MidiRange /\ (engineNoteOn(n, 100) \/ engineNoteOff(n))
              => UNCHANGED <<activeNotes, voiceObj, timers>>)
          /\ (~MapHas(activeNotes, n) /\ engineNoteOff(n)
              => UNCHANGED <<activeNotes, voiceObj, timers>>)
      ]_vars

\* An init() call fails in this step: the constructor raises, resume()
\* rejects, or the call resumes after a dispose() took the context away.
InitFails == initThrows \/ initRejected \/ (initResumed /\ ~engine.ctx)

\* A note event arrives in this step.
NoteEvent ==
    \/ \E n \in EngineNotes : engineNoteOn(n, 100) \/ engineNoteOff(n)
    \/ enginePanic

\* C26: a failing init() changes neither initialized nor the stored
\* parameters nor the synth and the rack; with the engine uninitialised after
\* a failure, note events change nothing and init() can be called again.
C26_FailedInitLeavesEngine ==
    [][/\ (InitFails
           => /\ engine'.initialized = engine.initialized
              /\ engine'.params = engine.params
              /\ engine'.masterGain = engine.masterGain
              /\ UNCHANGED <<synthVars, rack>>)
       /\ (engine.failed /\ ~engine.initialized
           => /\ NoteEvent => UNCHANGED vars
              /\ ENABLED init)
      ]_vars

\* C26 witness: an init() completed after an earlier init() had failed, and
\* the engine is initialised with its synth.
C26_Witness ==
    /\ engine.recovered
    /\ engine.initialized
    /\ Len(voices) = engine.params.polyphony
    /\ Len(voices) > 0

\* C27: initialized is true exactly when, of init() and dispose(), an init()
\* completed last; while it is false, noteOn, noteOff and panic change
\* nothing.
C27_InitializedBetweenInitAndDispose ==
    [][/\ (engine.initialized <=> engine.life = "init")
       /\ (engine'.initialized <=> engine'.life = "init")
       /\ (~engine.initialized /\ NoteEvent => UNCHANGED vars)
      ]_vars

\* C27 witness: dispose() ran on an initialised engine, which is now not
\* initialised and has no synth.
C27_Witness ==
    /\ engine.life = "disposed"
    /\ ~engine.initialized
    /\ voices = <<>>

\* The value a call stores for what it was passed: setMasterVolume keeps the
\* volume within 0..1, setParams stores the value as it is.
Stored(given) ==
    IF given[2] = "setMasterVolume"
    THEN (IF given[1] < 0 THEN 0
          ELSE IF given[1] > UNITY_GAIN THEN UNITY_GAIN ELSE given[1])
    ELSE given[1]

\* C28: getParams() is, field by field, what the last call that set the field
\* stored, and the default where no call set it; init() and dispose() leave
\* the parameters alone; a completing init() builds the synth, the rack and
\* the master gain from the parameters stored by then.
C28_ParamsAreDefaultsPlusPatches ==
    [][/\ \A f \in DOMAIN DEFAULT_PARAMS :
             getParams[f] = IF engine.asked[f] = <<>> THEN DEFAULT_PARAMS[f]
                            ELSE Stored(engine.asked[f])
       /\ (init \/ initSuspended \/ initResumed \/ initRejected \/ initThrows
              \/ dispose
           => engine'.params = engine.params /\ engine'.asked = engine.asked)
       /\ (init \/ (initResumed /\ engine.ctx)
           => /\ params' = synthParams(engine.params)
              /\ Len(voices') = engine.params.polyphony
              /\ rack'.asked = engine.params.fx
              /\ engine'.masterGain = NewParam(engine.params.masterVolume))
      ]_vars

\* C28 witness: polyphony 2 and master volume 1.5 were set while the engine
\* was not initialised, and the init() that followed built two voices and a
\* master gain of 1.5.
C28_Witness ==
    /\ engine.initialized
    /\ getParams.polyphony = 2
    /\ engine.asked.polyphony = <<2, "setParams">>
    /\ engine.asked.masterVolume = <<15000, "setParams">>
    /\ Len(voices) = 2
    /\ engine.masterGain = NewParam(15000)

\* C29: a Note On event (status 0x90..0x9F) that reaches the callback with
\* velocity byte 0 is handed over as a noteoff for its note and leads to
\* onNoteOff, never to onNoteOn; with a velocity byte above 0 it is handed
\* over as a noteon with velocity byte / 127, which is above 0; so no
\* onNoteOn call carries velocity 0.
C29_NoteOnZeroIsNoteOff ==
    /\ midi.callback /\ midi.event # <<>> /\ midi.message # <<>>
       /\ midi.event[1] \div 16 = 9
       => LET note     == midi.event[2]
              velocity == midi.event[3]
              msg      == midi.message[1]
          IN  IF velocity = 0
              THEN /\ msg.type = "noteoff"
                   /\ msg.note = note
                   /\ midi.call = <<"onNoteOff", note>>
              ELSE /\ msg.type = "noteon"
                   /\ msg.note = note
                   /\ msg.velocity = [num |-> velocity, den |-> 127]
                   /\ midi.call = <<"onNoteOn", note, msg.velocity>>
    /\ midi.call # <<>> /\ midi.call[1] = "onNoteOn" => midi.call[3].num > 0

\* C29 witness: a Note On on channel 2 with velocity byte 0 has reached the
\* callback as a noteoff.
C29_Witness ==
    /\ midi.callback
    /\ midi.event = <<145, 64, 0>>
    /\ midi.message = <<[type |-> "noteoff", channel |-> 2, note |-> 64]>>
    /\ midi.call = <<"onNoteOff", 64>>

\* Sums and differences of doubles as real numbers, without rounding.
Add(a, b) ==
    [i \in 1..Len(a) |->
        LET carry == \E j \in (i + 1)..Len(a) :
                         /\ a[j] + b[j] >= 2^LIMB
                         /\ \A k \in (i + 1)..(j - 1) : a[k] + b[k] = 2^LIMB - 1
        IN  (a[i] + b[i] + (IF carry THEN 1 ELSE 0)) % 2^LIMB]

Minus(x, y) ==
    IF x.neg # y.neg THEN Double(x.neg, Add(x.mag, y.mag))
    ELSE IF Less(x.mag, y.mag) THEN Double(~x.neg, Sub(y.mag, x.mag))
    ELSE Double(x.neg, Sub(x.mag, y.mag))

\* The two lists of the spread, each with its extent.
Spread ==
    {[values |-> unison.detunes, extent |-> unison.params.detune],
     [values |-> unison.pans, extent |-> unison.params.spread]}

\* The first value is -D and the last is D, to the bit, for N >= 2, and
\* for N = 1 the one value is 0.
Ends(v, D, N) ==
    /\ Len(v) = N
    /\ N = 1 => v = <<Zero>>
    /\ N >= 2 => v[1] = Neg(Extent(D)) /\ v[N] = Extent(D)

\* C30 as stated: for N >= 1 voices, generateUnisonDetunes(N, D) and
\* generateUnisonPans(N, S) are N values, [0] for N = 1, the first -D and
\* the last D for N >= 2, value[i] = -value[N-1-i] for every i, and the
\* step from each value to the next the same.
C30_SpreadExactlySymmetric ==
    \A l \in Spread :
        LET N == unison.params.voices
            v == l.values
        IN  N >= 1 =>
              /\ Ends(v, l.extent, N)
              /\ \A i \in 1..N : v[i] = Neg(v[N + 1 - i])
              /\ \A i \in 1..(N - 2) :
                    Minus(v[i + 1], v[i]) = Minus(v[i + 2], v[i + 1])

\* v is within D * 2^-51 of c * D / (N - 1), compared after multiplying by
\* N - 1.
Near(v, c, D, N) ==
    LET exact == Double(c < 0, MulSmall(Extent(D).mag, IF c < 0 THEN -c ELSE c))
        got   == Double(v.neg, MulSmall(v.mag, N - 1))
        slack == ShiftRight(MulSmall(Extent(D).mag, N - 1), MANTISSA - 2)
    IN  ~Less(slack, Minus(got, exact).mag)

\* C30, amended: for N >= 1 voices the two lists are N values, [0] for
\* N = 1, the first exactly -D and the last exactly D for N >= 2, and the
\* value at index i (from 0) within D * 2^-51 of (2i/(N-1) - 1) * D: evenly
\* spaced and symmetric about 0 up to the rounding of doubles.
C30_SpreadSymmetricToRounding ==
    \A l \in Spread :
        LET N == unison.params.voices
            v == l.values
        IN  N >= 1 =>
              /\ Ends(v, l.extent, N)
              /\ \A i \in 1..N :
                    N >= 2 => Near(v[i], 2 * (i - 1) - (N - 1), l.extent, N)

\* C30 witness: four voices at spread 0.5; the pans are four values from
\* -0.5 to 0.5 and the two inner ones are not each other's negation.
C30_Witness ==
    /\ unison.params.voices = 4
    /\ unison.params.spread = [m |-> 1, s |-> 1]
    /\ Len(unison.pans) = 4
    /\ unison.pans[1] = Neg(Extent(unison.params.spread))
    /\ unison.pans[4] = Extent(unison.params.spread)
    /\ unison.pans[2].neg /\ ~unison.pans[3].neg
    /\ unison.pans[2] # Neg(unison.pans[3])

\* C31: in every reachable state of the pool a voice of the pool is active
\* if and only if some note maps to it, and every mapped voice is in the
\* pool.
C31_ActiveIffMapped ==
    /\ \A i \in 1..Len(voices) :
          voiceObj[voices[i]].active <=> voices[i] \in MapValues(activeNotes)
    /\ MapValues(activeNotes) \subseteq PoolSet(voices)

\* C31 witness: a shrink of the pool has just removed an active voice, and
\* the pool that is left holds a mapped, active voice.
C31_Witness ==
    /\ last.forced
    /\ \E i \in 1..Len(voices) :
          /\ voiceObj[voices[i]].active
          /\ voices[i] \in MapValues(activeNotes)

\* C32: the callback of a cleanup timer tears a voice down only if the
\* voice is inactive when it fires: a timer that finds its voice active
\* leaves the voice's oscillators and noise source, and the whole voice, as
\* they are.
C32_TimerSparesActiveVoice ==
    [][\A t \in timers :
          timerFires(t) =>
            /\ voiceObj[t.voice].active => voiceObj' = voiceObj
            /\ voiceObj' # voiceObj => ~voiceObj[t.voice].active]_vars

\* C32 witness: a left-over timer has just fired on an active voice, which
\* still has its oscillators and its noise source.
C32_Witness ==
    /\ last.spared
    /\ \E id \in DOMAIN voiceObj :
          /\ voiceObj[id].active
          /\ voiceObj[id].unisonVoices = UNISON_VOICES
          /\ voiceObj[id].noiseNode

\* The events of an AudioParam that lie ahead of the time t.
Pending(param, t) == SelectSeq(param.events, LAMBDA e : e.time > t)

\* C33: a Voice.updateParams on a sounding voice that keeps the filter
\* cutoff leaves the automation that the filter envelope scheduled on the
\* cutoff as it was: the segments still ahead are the same after the call
\* as before it, those of the envelope and of no other driver.
C33_UpdateKeepsFilterEnvelope ==
    [][\A p \in SoloParams :
          /\ voiceUpdateParams(p)
          /\ solo.state.active
          /\ solo.filterEnvelope # <<>>
          /\ p.filter.cutoff = solo.params.filter.cutoff
          => Pending(solo'.filterFrequency, now)
                 = Pending(solo.filterFrequency, now)]_vars

\* C34: init() is idempotent also when calls overlap: a call assigns a new
\* AudioContext only while the engine references none, so none is
\* overwritten and leaked; a call that resumes behind its await finds the
\* context still referenced (no dispose() has cleared it) and the engine
\* not yet built by another call, so the master gain, the rack and the
\* synth are created at most once.
C34_InitIdempotentUnderOverlap ==
    [][/\ init \/ initSuspended => ~engine.ctx
       /\ initResumed => engine.ctx /\ ~engine.initialized]_vars

\* The voice is in its release tail: released, its oscillators or noise
\* still running, its cleanup timer pending.
ReleaseTail(id) ==
    /\ ~voiceObj[id].active
    /\ ~Silent(voiceObj[id])
    /\ \E t \in timers : t.voice = id

\* C35: a noteOn never takes a voice that is in its release tail while the
\* pool holds a voice that is fully idle (inactive, no oscillators, no
\* noise).
C35_IdleVoiceBeforeReleaseTail ==
    [][\A nv \in PoolNotes :
          noteOn(nv[1], nv[2]) =>
            LET id == MapGet(activeNotes', nv[1])
            IN  id # NoVoice /\ id \in PoolSet(voices) /\ ReleaseTail(id)
                => ~\E i \in 1..Len(voices) :
                       /\ ~voiceObj[voices[i]].active
                       /\ Silent(voiceObj[voices[i]])]_vars

\* C36: every noteOn the computer keyboard sent on a key-down is followed,
\* on the key-up of that key, by a noteOff for the same note number, also
\* when the octave offset was shifted in between, and once no key is held
\* no note is left sounding.
C36_KeyUpReleasesItsNote ==
    [][\A key \in DOMAIN KEY_MAP :
          keyUp(key) /\ keyboard.down[key] # <<>>
          => /\ keyboard'.call = <<"onNoteOff", keyboard.down[key][1]>>
             /\ keyboard'.held = {} => keyboard'.sounding = {}]_vars

\* A double of Hz from 20 to 20000.
Audible(x) ==
    /\ ~x.neg
    /\ ~Less(x.mag, Whole(20))
    /\ ~Less(Whole(20000), x.mag)

\* The double x * 16, without rounding.
Times16(x) == Double(x.neg, MulSmall(x.mag, 16))

\* C39: for a cutoff from 20 to 20000 Hz and an envAmount from -1 to 1 the
\* peak of the filter envelope lies from 20 to 20000 Hz, is not below the
\* cutoff for envAmount >= 0 and not above it for envAmount < 0, and at
\* envAmount 1 or -1 it is the cutoff times 16 or divided by 16 whenever
\* that is from 20 to 20000 Hz.
C39_FilterEnvPeakInRange ==
    Audible(sweep.cutoff) /\ sweep.envAmount \in EnvAmounts
    => /\ Audible(sweep.peak)
       /\ sweep.envAmount >= 0 => ~Less(sweep.peak.mag, sweep.cutoff.mag)
       /\ sweep.envAmount < 0 => ~Less(sweep.cutoff.mag, sweep.peak.mag)
       /\ sweep.envAmount = 4 /\ Audible(Times16(sweep.cutoff))
          => sweep.peak = Times16(sweep.cutoff)
       /\ sweep.envAmount = 0 - 4 /\ ~Less(sweep.cutoff.mag, Whole(320))
          => Times16(sweep.peak) = sweep.cutoff

\* The cutoff 100/3 Hz is opened by four octaves, and 321 Hz is pulled down
\* by four octaves to just above 20 Hz.
C39_Witness ==
    \/ /\ sweep.cutoff = fdiv(100, 3)
       /\ sweep.envAmount = 4
       /\ sweep.peak = Times16(fdiv(100, 3))
    \/ /\ sweep.cutoff = Double(FALSE, Whole(321))
       /\ sweep.envAmount = 0 - 4
       /\ Less(Whole(20), sweep.peak.mag)

\* A slot as createOscillators leaves it at time t: its oscillators were
\* created at t, are started, run and are connected.
Fresh(uv, t) ==
    LET new(node) == /\ node.createdAt = t
                     /\ node.started /\ ~node.stopped /\ node.connected
    IN  /\ new(uv.osc1)
        /\ uv.osc2 # <<>> => new(uv.osc2[1])
        /\ uv.subOsc # <<>> => new(uv.subOsc[1])
        /\ uv.panner

\* The step is a noteOn of note n on a voice with a unison count from 1 to
\* 7.  The first two conjuncts follow from the third and are tested first.
LayerNoteOn(n) ==
    /\ solo'.params = solo.params
    /\ solo'.state.noteNumber = n
    /\ voiceNoteOn(n, 100)
    /\ solo.params.unison \in UnisonRange

SubSlots(v) == {i - 1 : i \in {j \in 1..Len(v.unisonVoices) :
                                   v.unisonVoices[j].subOsc # <<>>}}

\* C38: for every unison count N from 1 to 7, a note-on with the sub
\* oscillator enabled creates exactly one sub oscillator, on the slot with
\* index floor(N / 2), and with the sub oscillator disabled it creates
\* none.
C38_OneSubOnCentreSlot ==
    [][\A n \in VoiceNotes :
          LayerNoteOn(n)
          => SubSlots(solo') = IF solo.params.subOsc
                               THEN {solo.params.unison \div 2}
                               ELSE {}]_vars

\* Four slots, the sub oscillator on the third.
C38_Witness ==
    /\ solo.state.active
    /\ solo.params.subOsc
    /\ solo.params.unison = 4
    /\ Len(solo.unisonVoices) = 4
    /\ SubSlots(solo) = {2}
    /\ Fresh(solo.unisonVoices[3], now)

\* Numbers with one group before the point and 2 * FRAC_LIMBS groups behind
\* it, as Product delivers them: the whole number n, 2^-n and a magnitude
\* of LIMBS groups.
Wide(n) == [k \in 1..(2 * LIMBS - 1) |-> IF k = 1 THEN n ELSE 0]

WideBit(n) ==
    [k \in 1..(2 * LIMBS - 1) |->
        IF k = 1 + ((n + LIMB - 1) \div LIMB) THEN 2^(LIMB * (k - 1) - n)
        ELSE 0]

\* |a - b|
Dist(a, b) == IF Less(a, b) THEN Sub(b, a) ELSE Sub(a, b)

\* The unit in the last place of a double with the magnitude l # 0.
Ulp(l) ==
    LET k == Leading(l) + MANTISSA - 1
    IN  [i \in 1..LIMBS |->
            IF i = ((k - 1) \div LIMB) + 1
            THEN 2^(LIMB - 1 - ((k - 1) % LIMB))
            ELSE 0]

\* r is the double nearest to the square root of n: r * r = n, or
\* (2r - ulp)^2 < 4n < (2r + ulp)^2.
NearestRoot(r, n) ==
    LET below == Sub(MulSmall(r.mag, 2), Ulp(r.mag))
        above == Add(MulSmall(r.mag, 2), Ulp(r.mag))
    IN  \/ Product(r.mag, r.mag) = Wide(n)
        \/ /\ Less(Product(below, below), Wide(4 * n))
           /\ Less(Wide(4 * n), Product(above, above))

\* g is a double nearest to 1 / r: |2gr - 2| <= ulp(g) * r.
NearestReciprocal(g, r) ==
    ~Less(Product(Ulp(g.mag), r.mag),
          Dist(Product(MulSmall(g.mag, 2), r.mag), Wide(2)))

\* n * g * g, the sum of the squares of n gains g, without rounding.
SumOfSquares(g, n) == MulFrom(Product(g.mag, g.mag), n, 2 * LIMBS - 1, 0)

\* What holds of the normalisation gain g = voiceGain(n) of n unison
\* voices, computed once for every n.  nearest: g is the double
\* 1 / Math.sqrt(n).  exact: n gains g sum up to the square root of n, which
\* is to say n * g squared is n, and their squares sum up to 1.  close: the
\* sum of n gains g is within sqrt(n) * 2^-52 of sqrt(n), which is to say
\* n * g * g lies from (1 - 2^-52)^2 to (1 + 2^-52)^2, and the sum of their
\* squares is within 2^-51 of 1.
EqualPower ==
    [n \in 1..MaxUnison |->
        LET g    == voiceGain(n)
            q    == SumOfSquares(g, n)
            eps  == ShiftRight(Whole(1), MANTISSA - 1)
            low  == Sub(One.mag, eps)
            high == Add(One.mag, eps)
        IN  [nearest |-> /\ NearestRoot(Math_sqrt(n), n)
                         /\ NearestReciprocal(g, Math_sqrt(n)),
             exact   |-> q = Wide(1),
             close   |-> /\ ~Less(q, Product(low, low))
                         /\ ~Less(Product(high, high), q)
                         /\ ~Less(WideBit(MANTISSA - 2), Dist(q, Wide(1)))]]

\* The gain of osc1 on every slot is the double gain.
SlotGains(v, gain) ==
    \A i \in 1..Len(v.unisonVoices) : v.unisonVoices[i].osc1Gain = gain

\* C40 as stated: after a note-on with a unison count N from 1 to 7 the
\* gain of the main oscillator on every slot is level * 1/sqrt(N), the N
\* normalisation gains 1/sqrt(N) sum up to sqrt(N) and their squares sum up
\* to 1.
C40_EqualPowerExactly ==
    [][\A n \in VoiceNotes :
          LayerNoteOn(n)
          => /\ SlotGains(solo', osc1Gains[solo.params.osc1.level,
                                           solo.params.unison])
             /\ EqualPower[solo.params.unison].nearest
             /\ EqualPower[solo.params.unison].exact]_vars

\* C40, amended: after a note-on with a unison count N from 1 to 7 the
\* gain of the main oscillator on every slot is the double level * g if
\* osc1 is enabled and 0 if it is not, where the normalisation gain g is
\* the double 1 / Math.sqrt(N); N gains g sum up to sqrt(N) within
\* sqrt(N) * 2^-52 and their squares to 1 within 2^-51.
C40_EqualPowerToRounding ==
    [][\A n \in VoiceNotes :
          LayerNoteOn(n)
          => /\ SlotGains(solo', IF solo.params.osc1.enabled
                                 THEN osc1Gains[solo.params.osc1.level,
                                                solo.params.unison]
                                 ELSE Zero)
             /\ EqualPower[solo.params.unison].nearest
             /\ EqualPower[solo.params.unison].close]_vars

\* Three slots at level 0.8, whose squared normalisation gains do not sum
\* up to 1 exactly.
C40_Witness ==
    /\ solo.state.active
    /\ solo.params.unison = 3
    /\ solo.params.osc1 = DEFAULT_OSC1
    /\ Len(solo.unisonVoices) = 3
    /\ SlotGains(solo, fprod(fdiv(4, 5), voiceGain(3)))
    /\ ~EqualPower[3].exact

====
